---- MODULE Spec2Model ----
(***************************************************************************)
(* Enigma M3 cipher engine (rotors I-V, reflectors B/C, plugboard).        *)
(*                                                                         *)
(* A JavaScript string is modelled as a sequence of characters; a          *)
(* character is a one-character atom ("A", "a", "1", ...).  A "letter"     *)
(* handed to or returned by the engine is a string of length one, as in    *)
(* the source, where no character type exists.                             *)
(***************************************************************************)
EXTENDS Integers, Sequences, FiniteSets, TLC

---------------------------------------------------------------------------
(* Strings and characters                                                  *)

\* export const ALPHABET = "ABCDEFGHIJKLMNOPQRSTUVWXYZ"
ALPHABET ==
  <<"A","B","C","D","E","F","G","H","I","J","K","L","M",
    "N","O","P","Q","R","S","T","U","V","W","X","Y","Z">>

ALPHABET_SIZE == 26

ASCII_OFFSET == 65

\* the lower-case ASCII letters, in the order of their code units
LowerCaseLetters ==
  <<"a","b","c","d","e","f","g","h","i","j","k","l","m",
    "n","o","p","q","r","s","t","u","v","w","x","y","z">>

\* U+00DF (sharp s) is a letter whose upper-case form has two code units
SharpS == "U+00DF"

\* U+FB06 (small ligature st) is one code unit whose upper-case form is the
\* two letters ST
LigatureST == "U+FB06"

\* characters that are no letters
NonLetterChars == {"1", " ", "."}

\* every character the model feeds to the engine
CharUniverse ==
  {ALPHABET[i] : i \in 1..26} \cup {LowerCaseLetters[i] : i \in 1..26}
    \cup NonLetterChars \cup {SharpS}

\* the value of a missing array element or Map entry
Undefined == <<"undefined">>

\* UTF-16 code unit of each character
CodeUnit ==
  [c \in CharUniverse \cup {LigatureST} |->
     IF \E i \in 1..26 : ALPHABET[i] = c
       THEN 64 + (CHOOSE i \in 1..26 : ALPHABET[i] = c)
     ELSE IF \E i \in 1..26 : LowerCaseLetters[i] = c
       THEN 96 + (CHOOSE i \in 1..26 : LowerCaseLetters[i] = c)
     ELSE IF c = "1" THEN 49
     ELSE IF c = " " THEN 32
     ELSE IF c = "." THEN 46
     ELSE IF c = SharpS THEN 223
     ELSE 64262]

\* String.prototype.toUpperCase on one character: the result is a string
UpperOfChar ==
  [c \in CharUniverse \cup {LigatureST} |->
     IF \E i \in 1..26 : LowerCaseLetters[i] = c
       THEN <<ALPHABET[CHOOSE i \in 1..26 : LowerCaseLetters[i] = c]>>
     ELSE IF c = SharpS THEN <<"S", "S">>
     ELSE IF c = LigatureST THEN <<"S", "T">>
     ELSE <<c>>]

RECURSIVE toUpperCase(_)
toUpperCase(s) ==
  IF s = <<>> THEN <<>> ELSE UpperOfChar[Head(s)] \o toUpperCase(Tail(s))

\* s.charCodeAt(0), for a non-empty string
charCodeAt0(s) == CodeUnit[s[1]]

\* the substrings of ALPHABET, the empty string among them
AlphabetSubstrings ==
  {<<>>} \cup {SubSeq(ALPHABET, i, j) : i \in 1..26, j \in 1..26}

\* ALPHABET.includes(s): s occurs in ALPHABET as a substring
ALPHABET_includes(s) == s \in AlphabetSubstrings

\* the % operator of JavaScript: the result has the sign of the dividend
JsRem(a, n) == IF a >= 0 THEN a % n ELSE 0 - ((0 - a) % n)

\* array / string indexing: Undefined outside the bounds
At(seq, i) == IF i >= 0 /\ i < Len(seq) THEN <<seq[i + 1]>> ELSE Undefined

letterToIndex(letter) == charCodeAt0(letter) - ASCII_OFFSET

indexToLetter(index) ==
  At(ALPHABET, JsRem(JsRem(index, ALPHABET_SIZE) + ALPHABET_SIZE, ALPHABET_SIZE))

normalizeIndex(index) ==
  JsRem(JsRem(index, ALPHABET_SIZE) + ALPHABET_SIZE, ALPHABET_SIZE)

isValidLetter(char) ==
  Len(char) = 1 /\ ALPHABET_includes(toUpperCase(char))

\* the 26 one-letter strings
Letters == {<<ALPHABET[i]>> : i \in 1..26}

---------------------------------------------------------------------------
(* Registry of rotor and reflector wirings                                 *)

RotorIds == {"I", "II", "III", "IV", "V"}

ReflectorIds == {"B", "C"}

RotorFactory_CONFIGS ==
  [id \in RotorIds |->
     CASE id = "I" ->
       [id |-> "I", notch |-> <<"Q">>, wiring |->
        <<"E","K","M","F","L","G","D","Q","V","Z","N","T","O",
          "W","Y","H","X","U","S","P","A","I","B","R","C","J">>]
       [] id = "II" ->
       [id |-> "II", notch |-> <<"E">>, wiring |->
        <<"A","J","D","K","S","I","R","U","X","B","L","H","W",
          "T","M","C","Q","G","Z","N","P","Y","F","V","O","E">>]
       [] id = "III" ->
       [id |-> "III", notch |-> <<"V">>, wiring |->
        <<"B","D","F","H","J","L","C","P","R","T","X","V","Z",
          "N","Y","E","I","W","G","A","K","M","U","S","Q","O">>]
       [] id = "IV" ->
       [id |-> "IV", notch |-> <<"J">>, wiring |->
        <<"E","S","O","V","P","Z","J","A","Y","Q","U","I","R",
          "H","X","L","N","F","T","G","K","D","C","M","W","B">>]
       [] id = "V" ->
       [id |-> "V", notch |-> <<"Z">>, wiring |->
        <<"V","Z","B","R","G","I","T","Y","U","P","S","D","N",
          "H","L","X","A","W","M","J","Q","O","F","E","C","K">>]]

ReflectorFactory_CONFIGS ==
  [id \in ReflectorIds |->
     CASE id = "B" ->
       [id |-> "B", wiring |->
        <<"Y","R","U","H","Q","S","L","D","P","X","N","G","O",
          "K","M","I","E","B","F","Z","C","W","V","J","A","T">>]
       [] id = "C" ->
       [id |-> "C", wiring |->
        <<"F","V","P","J","I","A","O","Y","E","D","R","Z","X",
          "W","G","C","T","K","U","Q","S","B","N","M","H","L">>]]

---------------------------------------------------------------------------
(* Rotor: an object with a read-only configuration and a mutable position. *)
(* The read-only fields _wiring, _notch and _inverseWiring are functions   *)
(* of the rotor's id; the object on the heap holds the id and _position.   *)

\* Rotor.computeInverseWiring: inverse[outputIndex] = indexToLetter(i) for
\* i = 0..25 in turn (a later i overwrites an earlier one); join("") then
\* concatenates the slots, an empty slot contributing nothing
IsWritten(c) == c # "undefined"

computeInverseWiring(wiring) ==
  LET inverse ==
        [k \in 1..ALPHABET_SIZE |->
           LET writers == {i \in 0..(ALPHABET_SIZE - 1) :
                             letterToIndex(At(wiring, i)) = k - 1}
           IN  IF writers = {} THEN "undefined"
               ELSE indexToLetter(
                      CHOOSE i \in writers : \A j \in writers : j <= i)[1]]
  IN  SelectSeq(inverse, IsWritten)

\* the inverse wiring each rotor computes once in its constructor
InverseWirings ==
  [id \in RotorIds |-> computeInverseWiring(RotorFactory_CONFIGS[id].wiring)]

\* new Rotor(config, initialPosition)
Rotor_new(config, initialPosition) ==
  [id |-> config.id, position |-> normalizeIndex(initialPosition)]

Rotor_wiring(rotor) == RotorFactory_CONFIGS[rotor.id].wiring

Rotor_notch(rotor) == RotorFactory_CONFIGS[rotor.id].notch

Rotor_inverseWiring(rotor) == InverseWirings[rotor.id]

Rotor_positionLetter(rotor) == indexToLetter(rotor.position)

Rotor_rotate(rotor) ==
  [rotor EXCEPT !.position = normalizeIndex(rotor.position + 1)]

Rotor_isAtNotch(rotor) == Rotor_positionLetter(rotor) = Rotor_notch(rotor)

\* what a call that threw an Error leaves as its outcome; a call that
\* returns nothing returns Undefined
Thrown == <<"Error">>

\* Rotor.setPosition(letter): the outcome (threw or not) and the rotor
\* after the call.  Reading .length of undefined in isValidLetter throws a
\* TypeError.
Rotor_setPosition(rotor, letter) ==
  IF letter = Undefined \/ ~isValidLetter(letter)
    THEN [threw |-> TRUE, rotor |-> rotor]
    ELSE [threw |-> FALSE,
          rotor |-> [rotor EXCEPT
                       !.position = letterToIndex(toUpperCase(letter))]]

\* variant of forward that leaves the position offset on its result
Rotor_forward_keepsOffset(rotor, inputLetter) ==
  LET inputIndex   == letterToIndex(inputLetter)
      offsetIndex  == normalizeIndex(inputIndex + rotor.position)
      outputLetter == At(Rotor_wiring(rotor), offsetIndex)
      outputIndex  == letterToIndex(outputLetter)
  IN  indexToLetter(outputIndex)

Rotor_forward(rotor, inputLetter) ==
  LET inputIndex   == letterToIndex(inputLetter)
      offsetIndex  == normalizeIndex(inputIndex + rotor.position)
      outputLetter == At(Rotor_wiring(rotor), offsetIndex)
      outputIndex  == letterToIndex(outputLetter)
      finalIndex   == normalizeIndex(outputIndex - rotor.position)
  IN  indexToLetter(finalIndex)

\* variant of backward that looks the letter up in the forward wiring
Rotor_backward_viaWiring(rotor, inputLetter) ==
  LET inputIndex   == letterToIndex(inputLetter)
      offsetIndex  == normalizeIndex(inputIndex + rotor.position)
      outputLetter == At(Rotor_wiring(rotor), offsetIndex)
      outputIndex  == letterToIndex(outputLetter)
      finalIndex   == normalizeIndex(outputIndex - rotor.position)
  IN  indexToLetter(finalIndex)

\* variant of backward that leaves the position offset on its result
Rotor_backward_keepsOffset(rotor, inputLetter) ==
  LET inputIndex   == letterToIndex(inputLetter)
      offsetIndex  == normalizeIndex(inputIndex + rotor.position)
      outputLetter == At(Rotor_inverseWiring(rotor), offsetIndex)
      outputIndex  == letterToIndex(outputLetter)
  IN  indexToLetter(outputIndex)

Rotor_backward(rotor, inputLetter) ==
  LET inputIndex   == letterToIndex(inputLetter)
      offsetIndex  == normalizeIndex(inputIndex + rotor.position)
      outputLetter == At(Rotor_inverseWiring(rotor), offsetIndex)
      outputIndex  == letterToIndex(outputLetter)
      finalIndex   == normalizeIndex(outputIndex - rotor.position)
  IN  indexToLetter(finalIndex)

\* RotorFactory.create(id, position)
RotorFactory_create(id, position) ==
  Rotor_new(RotorFactory_CONFIGS[id], letterToIndex(position))

---------------------------------------------------------------------------
(* Reflector                                                               *)

\* ReflectorFactory.create(id)
ReflectorFactory_create(id) == [id |-> ReflectorFactory_CONFIGS[id].id]

Reflector_wiring(reflector) == ReflectorFactory_CONFIGS[reflector.id].wiring

\* variant of reflect that reads the wiring one place further on
Reflector_reflect_nextIndex(reflector, inputLetter) ==
  LET index == letterToIndex(inputLetter)
  IN  At(Reflector_wiring(reflector), normalizeIndex(index + 1))

Reflector_reflect(reflector, inputLetter) ==
  LET index == letterToIndex(inputLetter)
  IN  At(Reflector_wiring(reflector), index)

---------------------------------------------------------------------------
(* Plugboard: a Map from one-letter strings to one-letter strings          *)

MapSet(map, key, value) ==
  [k \in (DOMAIN map) \cup {key} |-> IF k = key THEN value ELSE map[k]]

MapGet(map, key) == IF key \in DOMAIN map THEN map[key] ELSE Undefined

\* a ?? b
Nullish(a, b) == IF a = Undefined THEN b ELSE a

\* variant of the loop that does not test the length of the pair string
\* and connects its first two characters
RECURSIVE applyPairs_firstTwo(_, _)
applyPairs_firstTwo(mappings, pairs) ==
  IF pairs = <<>> THEN mappings
  ELSE LET pair == Head(pairs)
       IN  IF Len(pair) < 2 THEN applyPairs_firstTwo(mappings, Tail(pairs))
           ELSE LET a == toUpperCase(<<pair[1]>>)
                    b == toUpperCase(<<pair[2]>>)
                IN  IF ~isValidLetter(a) \/ ~isValidLetter(b)
                      THEN applyPairs_firstTwo(mappings, Tail(pairs))
                      ELSE applyPairs_firstTwo(
                             MapSet(MapSet(mappings, a, b), b, a),
                             Tail(pairs))

\* variant of the loop that skips a pair when one of its letters is
\* connected already
RECURSIVE applyPairs_firstWins(_, _)
applyPairs_firstWins(mappings, pairs) ==
  IF pairs = <<>> THEN mappings
  ELSE LET pair == Head(pairs)
       IN  IF Len(pair) # 2 THEN applyPairs_firstWins(mappings, Tail(pairs))
           ELSE LET a == toUpperCase(<<pair[1]>>)
                    b == toUpperCase(<<pair[2]>>)
                IN  IF ~isValidLetter(a) \/ ~isValidLetter(b)
                      THEN applyPairs_firstWins(mappings, Tail(pairs))
                    ELSE IF mappings[a] # a \/ mappings[b] # b
                      THEN applyPairs_firstWins(mappings, Tail(pairs))
                    ELSE applyPairs_firstWins(
                           MapSet(MapSet(mappings, a, b), b, a), Tail(pairs))

\* the loop `for (const pair of pairs)` of Plugboard.buildMappings
RECURSIVE applyPairs(_, _)
applyPairs(mappings, pairs) ==
  IF pairs = <<>> THEN mappings
  ELSE LET pair == Head(pairs)
       IN  IF Len(pair) # 2 THEN applyPairs(mappings, Tail(pairs))
           ELSE LET a == toUpperCase(<<pair[1]>>)
                    b == toUpperCase(<<pair[2]>>)
                IN  IF ~isValidLetter(a) \/ ~isValidLetter(b)
                      THEN applyPairs(mappings, Tail(pairs))
                      ELSE applyPairs(MapSet(MapSet(mappings, a, b), b, a),
                                      Tail(pairs))

Plugboard_buildMappings(pairs) ==
  applyPairs([letter \in Letters |-> letter], pairs)

\* new Plugboard(pairs)
Plugboard_new(pairs) ==
  [pairs |-> pairs, mappings |-> Plugboard_buildMappings(pairs)]

\* variant of swap that returns the letter without looking it up
Plugboard_swap_noLookup(plugboard, letter) == toUpperCase(letter)

Plugboard_swap(plugboard, letter) ==
  LET upperLetter == toUpperCase(letter)
  IN  Nullish(MapGet(plugboard.mappings, upperLetter), upperLetter)

Plugboard_isConnected(plugboard, letter) ==
  LET upperLetter == toUpperCase(letter)
  IN  MapGet(plugboard.mappings, upperLetter) # upperLetter

---------------------------------------------------------------------------
(* The original JavaScript engine (src/enigma): Rotor, Reflector and       *)
(* Plugboard.  Its rotor and reflector helpers ROTOR_I .. REFLECTOR_C      *)
(* carry the same wiring strings as the registry above.                    *)

ALFABETO == ALPHABET

\* ROTOR_I() .. ROTOR_V(): the arguments of `new Rotor(wiring, notchChar)`
ROTOR(id) ==
  [wiring    |-> RotorFactory_CONFIGS[id].wiring,
   notchChar |-> RotorFactory_CONFIGS[id].notch]

\* REFLECTOR_B(), REFLECTOR_C(): the argument of `new Reflector(wiring)`
REFLECTOR(id) == [wiring |-> ReflectorFactory_CONFIGS[id].wiring]

\* Rotor._calcularInverseWiring: inv[idxSaida] = ALFABETO[i], then join("")
Rotor_calcularInverseWiring(wiring) ==
  LET inv ==
        [k \in 1..26 |->
           LET writers == {i \in 0..25 : charCodeAt0(At(wiring, i)) - 65 = k - 1}
           IN  IF writers = {} THEN "undefined"
               ELSE At(ALFABETO,
                       CHOOSE i \in writers : \A j \in writers : j <= i)[1]]
  IN  SelectSeq(inv, IsWritten)

\* the inverse wiring each JS rotor computes once in its constructor
InverseWiringsJs ==
  [id \in RotorIds |-> Rotor_calcularInverseWiring(ROTOR(id).wiring)]

\* new Rotor(wiring, notchChar, posicaoInicial) for the rotor named id
Rotor_constructor(id, posicaoInicial) ==
  [id |-> id, posicao |-> JsRem(posicaoInicial, 26)]

\* the number NaN: the char code of an empty string, and every sum and
\* remainder computed from it
NaN == 0 - 1000

Rotor_girar(rotor) ==
  [rotor EXCEPT !.posicao = IF rotor.posicao = NaN THEN NaN
                            ELSE JsRem(rotor.posicao + 1, 26)]

\* Rotor.setPosicaoPorLetra(letra): the outcome and the rotor after the
\* call.  charCodeAt(0) of the empty string is NaN, and NaN < 0 and
\* NaN > 25 are both false; only the first character is looked at.
Rotor_setPosicaoPorLetra(rotor, letra) ==
  IF letra = Undefined THEN [threw |-> TRUE, rotor |-> rotor]
  ELSE LET upper == toUpperCase(letra)
           idx   == IF upper = <<>> THEN NaN ELSE charCodeAt0(upper) - 65
       IN  IF idx # NaN /\ (idx < 0 \/ idx > 25)
             THEN [threw |-> TRUE, rotor |-> rotor]
             ELSE [threw |-> FALSE, rotor |-> [rotor EXCEPT !.posicao = idx]]

Rotor_estaNoNotch(rotor) ==
  LET letraNaJanela == At(ALFABETO, rotor.posicao)
  IN  letraNaJanela = ROTOR(rotor.id).notchChar

Rotor_passarParaFrente(rotor, letra) ==
  LET idxEntrada   == charCodeAt0(letra) - 65
      idxComOffset == JsRem(idxEntrada + rotor.posicao + 26, 26)
      letraSaida   == At(ROTOR(rotor.id).wiring, idxComOffset)
      idxSaida     == charCodeAt0(letraSaida) - 65
      idxFinal     == JsRem(idxSaida - rotor.posicao + 26, 26)
  IN  At(ALFABETO, idxFinal)

Rotor_passarParaTras(rotor, letra) ==
  LET idxEntrada   == charCodeAt0(letra) - 65
      idxComOffset == JsRem(idxEntrada + rotor.posicao + 26, 26)
      letraSaida   == At(InverseWiringsJs[rotor.id], idxComOffset)
      idxSaida     == charCodeAt0(letraSaida) - 65
      idxFinal     == JsRem(idxSaida - rotor.posicao + 26, 26)
  IN  At(ALFABETO, idxFinal)

\* new Reflector(wiring) for the reflector named id
Reflector_constructor(id) == [id |-> id]

Reflector_refletir(reflector, letra) ==
  LET idx == charCodeAt0(letra) - 65
  IN  IF idx < 0 \/ idx > 25 THEN letra
      ELSE At(REFLECTOR(reflector.id).wiring, idx)

\* the loop `for (const par of pares)` of the Plugboard constructor
RECURSIVE aplicaPares(_, _)
aplicaPares(mapa, pares) ==
  IF pares = <<>> THEN mapa
  ELSE LET par == Head(pares)
       IN  IF Len(par) # 2 THEN aplicaPares(mapa, Tail(pares))
           ELSE LET a == toUpperCase(<<par[1]>>)
                    b == toUpperCase(<<par[2]>>)
                IN  IF ~ALPHABET_includes(a) \/ ~ALPHABET_includes(b)
                      THEN aplicaPares(mapa, Tail(pares))
                      ELSE aplicaPares(MapSet(MapSet(mapa, a, b), b, a),
                                       Tail(pares))

\* new Plugboard(pares)
Plugboard_constructor(pares) ==
  [mapa |-> aplicaPares([letra \in Letters |-> letra], pares)]

Plugboard_trocar(plugboard, letra) ==
  LET l == toUpperCase(letra)
  IN  IF ~ALPHABET_includes(l) THEN letra
      ELSE Nullish(MapGet(plugboard.mapa, l), l)

---------------------------------------------------------------------------
(* Enigma: the machine.  Rotor objects live on a heap (a sequence of       *)
(* rotor objects, a reference being an index into it), so that two         *)
(* objects holding the same rotor object would be seen to interfere.      *)

\* rotor.rotate() on the rotor object the reference names
HeapRotate(heap, ref) == [heap EXCEPT ![ref] = Rotor_rotate(heap[ref])]

\* new Enigma(rotors, reflector, plugboard)
Enigma_new(rotorRefs, reflector, plugboard) ==
  [rotors |-> rotorRefs, reflector |-> reflector, plugboard |-> plugboard]

\* variant of create that hands out the rotor objects already on the heap
\* instead of new ones
EnigmaFactory_create_sharedRotors(heap, s) ==
  LET rotorObjects ==
        << RotorFactory_create(s.rotors[1], s.positions[1]),
           RotorFactory_create(s.rotors[2], s.positions[2]),
           RotorFactory_create(s.rotors[3], s.positions[3]) >>
  IN  [heap    |-> IF heap = <<>> THEN rotorObjects ELSE heap,
       machine |-> Enigma_new(<<1, 2, 3>>,
                              ReflectorFactory_create(s.reflector),
                              Plugboard_new(s.plugboardPairs))]

\* EnigmaFactory.create(settings): three new rotors, a new reflector, a new
\* plugboard.  Returns the heap with the new rotors and the machine.
EnigmaFactory_create(heap, s) ==
  LET rotorObjects ==
        << RotorFactory_create(s.rotors[1], s.positions[1]),
           RotorFactory_create(s.rotors[2], s.positions[2]),
           RotorFactory_create(s.rotors[3], s.positions[3]) >>
      n == Len(heap)
  IN  [heap    |-> heap \o rotorObjects,
       machine |-> Enigma_new(<<n + 1, n + 2, n + 3>>,
                              ReflectorFactory_create(s.reflector),
                              Plugboard_new(s.plugboardPairs))]

\* variant of the default settings with the rotors right to left
DEFAULT_SETTINGS_rightToLeft ==
  [rotors |-> <<"III", "II", "I">>, reflector |-> "B",
   positions |-> << <<"A">>, <<"A">>, <<"A">> >>, plugboardPairs |-> <<>>]

DEFAULT_SETTINGS ==
  [rotors |-> <<"I", "II", "III">>, reflector |-> "B",
   positions |-> << <<"A">>, <<"A">>, <<"A">> >>, plugboardPairs |-> <<>>]

\* EnigmaFactory.createDefault()
EnigmaFactory_createDefault(heap) == EnigmaFactory_create(heap, DEFAULT_SETTINGS)

\* Enigma.getPositions()
Enigma_getPositions(heap, machine) ==
  << Rotor_positionLetter(heap[machine.rotors[1]]),
     Rotor_positionLetter(heap[machine.rotors[2]]),
     Rotor_positionLetter(heap[machine.rotors[3]]) >>

\* variant of stepRotors in which a middle rotor at its notch moves the left
\* rotor only
Enigma_stepRotors_leftOnly(heap, machine) ==
  LET leftRotor     == machine.rotors[1]
      middleRotor   == machine.rotors[2]
      rightRotor    == machine.rotors[3]
      middleAtNotch == Rotor_isAtNotch(heap[middleRotor])
      rightAtNotch  == Rotor_isAtNotch(heap[rightRotor])
      h1 == IF middleAtNotch THEN HeapRotate(heap, leftRotor) ELSE heap
      h2 == IF rightAtNotch THEN HeapRotate(h1, middleRotor) ELSE h1
  IN  HeapRotate(h2, rightRotor)

\* variant of stepRotors that rotates the right rotor first and reads its
\* notch afterwards
Enigma_stepRotors_lateRead(heap, machine) ==
  LET leftRotor     == machine.rotors[1]
      middleRotor   == machine.rotors[2]
      rightRotor    == machine.rotors[3]
      h0            == HeapRotate(heap, rightRotor)
      middleAtNotch == Rotor_isAtNotch(h0[middleRotor])
      rightAtNotch  == Rotor_isAtNotch(h0[rightRotor])
      h1 == IF middleAtNotch
              THEN HeapRotate(HeapRotate(h0, middleRotor), leftRotor)
              ELSE h0
  IN  IF rightAtNotch THEN HeapRotate(h1, middleRotor) ELSE h1

\* variant of stepRotors whose second conditional is an else-branch of the
\* first
Enigma_stepRotors_elseIf(heap, machine) ==
  LET leftRotor     == machine.rotors[1]
      middleRotor   == machine.rotors[2]
      rightRotor    == machine.rotors[3]
      middleAtNotch == Rotor_isAtNotch(heap[middleRotor])
      rightAtNotch  == Rotor_isAtNotch(heap[rightRotor])
      h1 == IF middleAtNotch
              THEN HeapRotate(HeapRotate(heap, middleRotor), leftRotor)
              ELSE IF rightAtNotch THEN HeapRotate(heap, middleRotor)
              ELSE heap
  IN  HeapRotate(h1, rightRotor)

\* variant of stepRotors that turns the left rotor whenever it turns the
\* middle one
Enigma_stepRotors_leftWithMiddle(heap, machine) ==
  LET leftRotor     == machine.rotors[1]
      middleRotor   == machine.rotors[2]
      rightRotor    == machine.rotors[3]
      middleAtNotch == Rotor_isAtNotch(heap[middleRotor])
      rightAtNotch  == Rotor_isAtNotch(heap[rightRotor])
      h1 == IF middleAtNotch
              THEN HeapRotate(HeapRotate(heap, middleRotor), leftRotor)
              ELSE heap
      h2 == IF rightAtNotch
              THEN HeapRotate(HeapRotate(h1, middleRotor), leftRotor)
              ELSE h1
  IN  HeapRotate(h2, rightRotor)

\* variant of stepRotors that steps like an odometer: the middle rotor moves
\* only when the right one is at its notch, the left one only when both are
Enigma_stepRotors_odometer(heap, machine) ==
  LET leftRotor     == machine.rotors[1]
      middleRotor   == machine.rotors[2]
      rightRotor    == machine.rotors[3]
      middleAtNotch == Rotor_isAtNotch(heap[middleRotor])
      rightAtNotch  == Rotor_isAtNotch(heap[rightRotor])
      h1 == IF middleAtNotch /\ rightAtNotch
              THEN HeapRotate(heap, leftRotor)
              ELSE heap
      h2 == IF rightAtNotch THEN HeapRotate(h1, middleRotor) ELSE h1
  IN  HeapRotate(h2, rightRotor)

\* Enigma.stepRotors(): both notch tests are read before any rotor moves
Enigma_stepRotors(heap, machine) ==
  LET leftRotor     == machine.rotors[1]
      middleRotor   == machine.rotors[2]
      rightRotor    == machine.rotors[3]
      middleAtNotch == Rotor_isAtNotch(heap[middleRotor])
      rightAtNotch  == Rotor_isAtNotch(heap[rightRotor])
      h1 == IF middleAtNotch
              THEN HeapRotate(HeapRotate(heap, middleRotor), leftRotor)
              ELSE heap
      h2 == IF rightAtNotch THEN HeapRotate(h1, middleRotor) ELSE h1
  IN  HeapRotate(h2, rightRotor)

\* variant of record that takes both indices from the input letter
SignalTracer_record_sameIndex(steps, component, inputLetter, outputLetter) ==
  Append(steps, [component    |-> component,
                 inputLetter  |-> inputLetter,
                 outputLetter |-> outputLetter,
                 inputIndex   |-> letterToIndex(inputLetter),
                 outputIndex  |-> letterToIndex(inputLetter)])

\* SignalTracer.record(component, inputLetter, outputLetter)
SignalTracer_record(steps, component, inputLetter, outputLetter) ==
  Append(steps, [component    |-> component,
                 inputLetter  |-> inputLetter,
                 outputLetter |-> outputLetter,
                 inputIndex   |-> letterToIndex(inputLetter),
                 outputIndex  |-> letterToIndex(outputLetter)])

\* The values `signal` takes in Enigma.encipherCharWithPath are kept in a
\* sequence: the upper-cased input first, then the result of each
\* substitution.  Each operator below is one statement
\* `signal = component(signal)` and appends the new value.
currentSignal(signals) == signals[Len(signals)]

viaPlugboard(plugboard, signals) ==
  Append(signals, Plugboard_swap(plugboard, currentSignal(signals)))

viaRotorForward(rotor, signals) ==
  Append(signals, Rotor_forward(rotor, currentSignal(signals)))

viaReflector(reflector, signals) ==
  Append(signals, Reflector_reflect(reflector, currentSignal(signals)))

viaRotorBackward(rotor, signals) ==
  Append(signals, Rotor_backward(rotor, currentSignal(signals)))

\* the signal recorded again, unchanged
keepSignal(signals) == Append(signals, currentSignal(signals))

\* variant of the signal's way that leaves the plugboard out on the way back
Enigma_signals_noPlugboardOut(h, machine, signal) ==
  keepSignal(
    viaRotorBackward(h[machine.rotors[3]],
      viaRotorBackward(h[machine.rotors[2]],
        viaRotorBackward(h[machine.rotors[1]],
          viaReflector(machine.reflector,
            viaRotorForward(h[machine.rotors[1]],
              viaRotorForward(h[machine.rotors[2]],
                viaRotorForward(h[machine.rotors[3]],
                  viaPlugboard(machine.plugboard, <<signal>>)))))))))

\* the ten values of `signal` after the rotors have stepped (heap h):
\* plugboard, right, middle, left rotor, reflector, left, middle, right
\* rotor backwards, plugboard
Enigma_signals(h, machine, signal) ==
  viaPlugboard(machine.plugboard,
    viaRotorBackward(h[machine.rotors[3]],
      viaRotorBackward(h[machine.rotors[2]],
        viaRotorBackward(h[machine.rotors[1]],
          viaReflector(machine.reflector,
            viaRotorForward(h[machine.rotors[1]],
              viaRotorForward(h[machine.rotors[2]],
                viaRotorForward(h[machine.rotors[3]],
                  viaPlugboard(machine.plugboard, <<signal>>)))))))))

\* variant of the tags that names the rotors left to right on the way in
ComponentTypes_leftFirst ==
  << "input", "plugboard_in", "rotor_l", "rotor_m", "rotor_r", "reflector",
     "rotor_l_back", "rotor_m_back", "rotor_r_back", "plugboard_out",
     "output" >>

\* the component tags in the order the tracer records them
ComponentTypes ==
  << "input", "plugboard_in", "rotor_r", "rotor_m", "rotor_l", "reflector",
     "rotor_l_back", "rotor_m_back", "rotor_r_back", "plugboard_out",
     "output" >>

\* the tracer's steps: tracer.record("input", signal, signal), one record
\* per substitution, tracer.record("output", signal, signal); `steps` holds
\* the records made so far and n is the number of the next one
RECURSIVE Enigma_steps(_, _, _)
Enigma_steps(steps, signals, n) ==
  IF n > 11 THEN steps
  ELSE Enigma_steps(
         SignalTracer_record(
           steps, ComponentTypes[n],
           IF n = 1 THEN signals[1] ELSE IF n = 11 THEN signals[10]
                                         ELSE signals[n - 1],
           IF n = 11 THEN signals[10] ELSE signals[n]),
         signals, n + 1)

\* the part of encipherCharWithPath after this.stepRotors(): h is the heap
\* the stepping left
signalAfterStep(h, machine, signal) ==
  [valid |-> TRUE, heap |-> h, signals |-> Enigma_signals(h, machine, signal)]

\* variant of encipherCharWithPath that steps the rotors before it tests the
\* character
Enigma_runSignal_stepFirst(heap, machine, char) ==
  LET signal == toUpperCase(char)
  IN  IF ~isValidLetter(signal)
        THEN [valid |-> FALSE, heap |-> Enigma_stepRotors(heap, machine),
              signals |-> <<>>]
        ELSE signalAfterStep(Enigma_stepRotors(heap, machine), machine, signal)

\* variant of encipherCharWithPath that sends the signal through the rotors
\* as they stand before the stepping
Enigma_runSignal_routeFirst(heap, machine, char) ==
  LET signal == toUpperCase(char)
  IN  IF ~isValidLetter(signal)
        THEN [valid |-> FALSE, heap |-> heap, signals |-> <<>>]
        ELSE [valid |-> TRUE, heap |-> Enigma_stepRotors(heap, machine),
              signals |-> Enigma_signals(heap, machine, signal)]

\* Enigma.encipherCharWithPath(char) up to its return: the validity test of
\* the upper-cased character, the stepping, and the values of `signal`
Enigma_runSignal(heap, machine, char) ==
  LET signal == toUpperCase(char)
  IN  IF ~isValidLetter(signal)
        THEN [valid |-> FALSE, heap |-> heap, signals |-> <<>>]
        ELSE signalAfterStep(Enigma_stepRotors(heap, machine), machine, signal)

\* the SignalPath encipherCharWithPath returns, r being the run of the
\* signal: { steps: [], inputLetter: char, outputLetter: char } for a
\* character that is no letter, tracer.build(upperChar, signal) otherwise
SignalTracer_build(r, char) ==
  [heap |-> r.heap,
   path |-> IF ~r.valid
              THEN [steps |-> <<>>, inputLetter |-> char,
                    outputLetter |-> char]
              ELSE [steps |-> Enigma_steps(<<>>, r.signals, 1),
                    inputLetter |-> r.signals[1],
                    outputLetter |-> r.signals[10]]]

\* Enigma.encipherCharWithPath(char): the heap after the call and the
\* SignalPath returned
Enigma_encipherCharWithPath(heap, machine, char) ==
  SignalTracer_build(Enigma_runSignal(heap, machine, char), char)

\* .outputLetter of the path encipherCharWithPath returns
outputLetterOf(r, char) ==
  [heap |-> r.heap, ret |-> IF r.valid THEN r.signals[10] ELSE char]

\* Enigma.encipherChar(char) is encipherCharWithPath(char).outputLetter: the
\* heap after the call and the letter returned (the steps are dropped)
Enigma_encipherChar(heap, machine, char) ==
  outputLetterOf(Enigma_runSignal(heap, machine, char), char)

\* text.split("").map(char => this.encipherChar(char)).join(""): the
\* characters are enciphered from left to right; `joined` holds the results
\* of the characters done so far
RECURSIVE mapEncipherChar(_, _, _, _)
mapRest(first, machine, chars, joined) ==
  mapEncipherChar(first.heap, machine, Tail(chars), joined \o first.ret)

mapEncipherChar(heap, machine, chars, joined) ==
  IF chars = <<>> THEN [heap |-> heap, ret |-> joined]
  ELSE mapRest(Enigma_encipherChar(heap, machine, <<Head(chars)>>),
               machine, chars, joined)

\* variant of encipherText that leaves the characters that are no letters
\* out of its result
Enigma_encipherText_lettersOnly(heap, machine, text) ==
  LET r == mapEncipherChar(heap, machine, text, <<>>)
      IsLetterAt(i) == isValidLetter(toUpperCase(<<text[i]>>))
      kept == {i \in 1..Len(text) : IsLetterAt(i)}
  IN  [heap |-> r.heap,
       ret  |-> [k \in 1..Cardinality(kept) |->
                   r.ret[CHOOSE i \in kept :
                           Cardinality({j \in kept : j <= i}) = k]]]

\* variant of encipherText that puts the rotors back where they stood when
\* the text began
Enigma_encipherText_rewinds(heap, machine, text) ==
  [heap |-> heap, ret |-> mapEncipherChar(heap, machine, text, <<>>).ret]

\* Enigma.encipherText(text)
Enigma_encipherText(heap, machine, text) ==
  mapEncipherChar(heap, machine, text, <<>>)

---------------------------------------------------------------------------
(* Position setters and constructors of the machine.  st is the outcome    *)
(* so far of the statements already run: whether one of them threw, and    *)
(* the heap they left.                                                     *)

\* this._rotors[i].setPosition(positions[i]): reading setPosition of a
\* missing rotor throws a TypeError; a missing position is undefined
setPositionOf(st, machine, positions, i) ==
  IF st.threw \/ i > Len(machine.rotors)
    THEN [threw |-> TRUE, heap |-> st.heap]
    ELSE LET r == Rotor_setPosition(
                    st.heap[machine.rotors[i]],
                    IF i <= Len(positions) THEN positions[i] ELSE Undefined)
         IN  [threw |-> r.threw,
              heap  |-> [st.heap EXCEPT ![machine.rotors[i]] = r.rotor]]

\* Enigma.setPositions(positions)
Enigma_setPositions(heap, machine, positions) ==
  setPositionOf(
    setPositionOf(
      setPositionOf([threw |-> FALSE, heap |-> heap], machine, positions, 1),
      machine, positions, 2),
    machine, positions, 3)

\* new Enigma(reflector, rotors, plugboard) of the JS engine: whether the
\* constructor threw, and the object it was filling
Enigma_constructor(reflector, rotorRefs, plugboard) ==
  [threw   |-> Len(rotorRefs) # 3,
   machine |-> [reflector |-> reflector, rotors |-> rotorRefs,
                plugboard |-> plugboard]]

\* this.rotors[i].setPosicaoPorLetra(posicoes[i]) in the loop of setPosicoes
setPosicaoOf(st, machine, posicoes, i) ==
  IF st.threw THEN st
  ELSE LET r == Rotor_setPosicaoPorLetra(st.heap[machine.rotors[i]],
                                         posicoes[i])
       IN  [threw |-> r.threw,
            heap  |-> [st.heap EXCEPT ![machine.rotors[i]] = r.rotor]]

\* Enigma.setPosicoes(posicoes) of the JS engine
Enigma_setPosicoes(heap, machine, posicoes) ==
  IF Len(posicoes) # 3 THEN [threw |-> TRUE, heap |-> heap]
  ELSE setPosicaoOf(
         setPosicaoOf(
           setPosicaoOf([threw |-> FALSE, heap |-> heap], machine, posicoes, 1),
           machine, posicoes, 2),
         machine, posicoes, 3)

---------------------------------------------------------------------------
(* The machine of the original JavaScript engine (src/enigma/enigma.js)    *)
(* and of the legacy TypeScript engine (src/front/src/lib/enigma.ts), which *)
(* is the same machine with encipherCharWithPath added.                    *)

\* rotor.girar() on the rotor object the reference names
HeapGirar(heap, ref) == [heap EXCEPT ![ref] = Rotor_girar(heap[ref])]

\* Enigma._stepRotores()
Enigma_stepRotores(heap, machine) ==
  LET rotorEsq    == machine.rotors[1]
      rotorMeio   == machine.rotors[2]
      rotorDir    == machine.rotors[3]
      meioNoNotch == Rotor_estaNoNotch(heap[rotorMeio])
      dirNoNotch  == Rotor_estaNoNotch(heap[rotorDir])
      h1 == IF meioNoNotch
              THEN HeapGirar(HeapGirar(heap, rotorMeio), rotorEsq)
              ELSE heap
      h2 == IF dirNoNotch THEN HeapGirar(h1, rotorMeio) ELSE h1
  IN  HeapGirar(h2, rotorDir)

\* the n-th of the nine statements `c = component(c)` of encipherChar
etapa(h, machine, n, c) ==
  CASE n = 1 -> Plugboard_trocar(machine.plugboard, c)
    [] n = 2 -> Rotor_passarParaFrente(h[machine.rotors[3]], c)
    [] n = 3 -> Rotor_passarParaFrente(h[machine.rotors[2]], c)
    [] n = 4 -> Rotor_passarParaFrente(h[machine.rotors[1]], c)
    [] n = 5 -> Reflector_refletir(machine.reflector, c)
    [] n = 6 -> Rotor_passarParaTras(h[machine.rotors[1]], c)
    [] n = 7 -> Rotor_passarParaTras(h[machine.rotors[2]], c)
    [] n = 8 -> Rotor_passarParaTras(h[machine.rotors[3]], c)
    [] n = 9 -> Plugboard_trocar(machine.plugboard, c)

\* the values `c` takes from statement n on, cs holding the values so far
RECURSIVE Enigma_rota(_, _, _, _)
Enigma_rota(cs, h, machine, n) ==
  IF n > 9 THEN cs
  ELSE Enigma_rota(Append(cs, etapa(h, machine, n, cs[Len(cs)])),
                   h, machine, n + 1)

\* the part of encipherChar after this._stepRotores(): h is the heap the
\* stepping left
rotaAposStep(h, machine, c) ==
  [valid |-> TRUE, heap |-> h, signals |-> Enigma_rota(<<c>>, h, machine, 1)]

\* encipherChar / encipherCharWithPath up to the return: the test
\* ALFABETO.includes(c) of the upper-cased character, the stepping, and the
\* values of `c`
EnigmaJs_run(heap, machine, letra) ==
  LET c == toUpperCase(letra)
  IN  IF ~ALPHABET_includes(c)
        THEN [valid |-> FALSE, heap |-> heap, signals |-> <<>>]
        ELSE rotaAposStep(Enigma_stepRotores(heap, machine), machine, c)

\* Enigma.encipherChar(letra) of enigma.js
EnigmaJs_encipherChar(heap, machine, letra) ==
  outputLetterOf(EnigmaJs_run(heap, machine, letra), letra)

\* Enigma.encipherCharWithPath(letra) of the legacy engine: the same
\* statements, each followed by steps.push of the record the tracer makes
EnigmaLegacy_encipherCharWithPath(heap, machine, letra) ==
  SignalTracer_build(EnigmaJs_run(heap, machine, letra), letra)

\* Rotor.getPosicaoLetra()
Rotor_getPosicaoLetra(rotor) == At(ALPHABET, rotor.posicao)

\* Enigma.getPosicoes()
Enigma_getPosicoes(heap, machine) ==
  [i \in 1..Len(machine.rotors) |->
     Rotor_getPosicaoLetra(heap[machine.rotors[i]])]

\* `return result.outputLetter` of the legacy encipherChar
outputLetterOfPath(result) ==
  [heap |-> result.heap, ret |-> result.path.outputLetter]

\* Enigma.encipherChar(letra) of the legacy engine
EnigmaLegacy_encipherChar(heap, machine, letra) ==
  outputLetterOfPath(EnigmaLegacy_encipherCharWithPath(heap, machine, letra))

\* the loop `for (const ch of texto) resultado += this.encipherChar(ch)`:
\* `resultado` holds the results of the characters done so far
RECURSIVE paraCada(_, _, _, _)
restoDoTexto(primeiro, machine, texto, resultado) ==
  paraCada(primeiro.heap, machine, Tail(texto), resultado \o primeiro.ret)

paraCada(heap, machine, texto, resultado) ==
  IF texto = <<>> THEN [heap |-> heap, ret |-> resultado]
  ELSE restoDoTexto(EnigmaJs_encipherChar(heap, machine, <<Head(texto)>>),
                    machine, texto, resultado)

\* Enigma.encipherText(texto) of enigma.js
EnigmaJs_encipherText(heap, machine, texto) ==
  paraCada(heap, machine, texto, <<>>)

\* a machine of the JS engine for the settings s: the rotors ROTOR_x() at
\* position 0, new Enigma(reflector, rotors, plugboard), then setPosicoes
\* with the start letters.  Returns the heap with the new rotors and the
\* machine.
EnigmaJs_create(heap, s) ==
  LET m == Enigma_constructor(
             Reflector_constructor(s.reflector),
             <<Len(heap) + 1, Len(heap) + 2, Len(heap) + 3>>,
             Plugboard_constructor(s.plugboardPairs)).machine
  IN  [heap    |-> Enigma_setPosicoes(
                     heap \o [i \in 1..3 |-> Rotor_constructor(s.rotors[i], 0)],
                     m, s.positions).heap,
       machine |-> m]

---------------------------------------------------------------------------
(* State                                                                   *)

VARIABLES
  settings,   \* the EnigmaSettings the objects were created from
  rotors,     \* the heap of rotor objects
  objects,    \* the Enigma, Reflector and Plugboard objects, by name
  lastCall    \* per object, the last call made on it and what it returned

vars == <<settings, rotors, objects, lastCall>>

\* no call made yet
NoCall ==
  [op |-> "none", arg |-> <<>>, ret |-> <<>>, steps |-> <<>>,
   before |-> <<>>, prev |-> <<>>]

\* positions of machine m's rotors, left to right, as 0..25
PositionsOf(heap, machine) ==
  << heap[machine.rotors[1]].position,
     heap[machine.rotors[2]].position,
     heap[machine.rotors[3]].position >>

\* the same for a machine of the JS engine
PosicoesOf(heap, machine) ==
  << heap[machine.rotors[1]].posicao,
     heap[machine.rotors[2]].posicao,
     heap[machine.rotors[3]].posicao >>

---------------------------------------------------------------------------
(* Bounds of the model                                                     *)

\* longest text handed to encipherText
MaxLen == 2

\* characters of the texts
InputChars == {"A", "Q", "a", "1", " "}

Texts == UNION {[1..n -> InputChars] : n \in 0..MaxLen}

\* single characters handed to encipherChar / encipherCharWithPath
InputStrings == {<<c>> : c \in CharUniverse}

\* rotor selections: every rotor occurs in every slot
RotorTriples ==
  { <<"I", "II", "III">>, <<"II", "III", "IV">>, <<"III", "IV", "V">>,
    <<"IV", "V", "I">>, <<"V", "I", "II">>, <<"V", "IV", "III">> }

\* start letters of a rotor: A and the rotor's notch letter
StartLettersOf(id) == {<<"A">>, RotorFactory_CONFIGS[id].notch}

\* plugboard pair lists: none, disjoint pairs, and one letter in two pairs
PairLists ==
  { <<>>,
    << <<"A", "Q">>, <<"B", "T">> >>,
    << <<"A", "Q">>, <<"Q", "B">> >> }

Settings ==
  UNION { [rotors : {t}, reflector : ReflectorIds,
           positions : StartLettersOf(t[1]) \X StartLettersOf(t[2])
                         \X StartLettersOf(t[3]),
           plugboardPairs : PairLists] : t \in RotorTriples }

---------------------------------------------------------------------------
(* Actions: one per call on a machine                                      *)

\* a call on machine m has returned: r holds the heap the call left and
\* what it returned
Returned(m, op, arg, r, before) ==
  /\ rotors' = r.heap
  /\ lastCall' = [lastCall EXCEPT ![m] =
                    [op |-> op, arg |-> arg, ret |-> r.ret, steps |-> <<>>,
                     before |-> before, prev |-> <<>>]]
  /\ UNCHANGED <<settings, objects>>

\* the same for a call that returned a SignalPath
ReturnedPath(m, op, arg, r, before) ==
  /\ rotors' = r.heap
  /\ lastCall' = [lastCall EXCEPT ![m] =
                    [op |-> op, arg |-> arg, ret |-> r.path.outputLetter,
                     steps |-> r.path.steps,
                     before |-> before, prev |-> <<>>]]
  /\ UNCHANGED <<settings, objects>>

\* m.encipherChar(char)
CallEncipherChar(m, char) ==
  Returned(m, "encipherChar", char,
           Enigma_encipherChar(rotors, objects[m], char),
           PositionsOf(rotors, objects[m]))

\* m.encipherCharWithPath(char)
CallEncipherCharWithPath(m, char) ==
  ReturnedPath(m, "encipherCharWithPath", char,
               Enigma_encipherCharWithPath(rotors, objects[m], char),
               PositionsOf(rotors, objects[m]))

\* m.encipherText(text)
CallEncipherText(m, text) ==
  Returned(m, "encipherText", text,
           Enigma_encipherText(rotors, objects[m], text),
           PositionsOf(rotors, objects[m]))

---------------------------------------------------------------------------
(* Spec: two objects e1 and e2 created from the same settings.  e1 is     *)
(* given one call; e2 is then given either the text e1 was given or the    *)
(* text e1 returned.                                                       *)

Init ==
  \E s \in Settings :
    LET c1 == EnigmaFactory_create(<<>>, s)
        c2 == EnigmaFactory_create(c1.heap, s)
    IN  /\ settings = s
        /\ rotors = c2.heap
        /\ objects = [m \in {"e1", "e2"} |->
                         IF m = "e1" THEN c1.machine ELSE c2.machine]
        /\ lastCall = [m \in {"e1", "e2"} |-> NoCall]

EncipherChar ==
  /\ lastCall["e1"].op = "none"
  /\ \E char \in InputStrings : CallEncipherChar("e1", char)

EncipherCharWithPath ==
  /\ lastCall["e1"].op = "none"
  /\ \E char \in InputStrings : CallEncipherCharWithPath("e1", char)

EncipherText ==
  /\ lastCall["e1"].op = "none"
  /\ \E text \in Texts : CallEncipherText("e1", text)

\* the second machine enciphers the same text as the first
EncipherSame ==
  /\ lastCall["e1"].op = "encipherText"
  /\ lastCall["e2"].op = "none"
  /\ CallEncipherText("e2", lastCall["e1"].arg)

\* the second machine enciphers what the first returned
EncipherBack ==
  /\ lastCall["e1"].op = "encipherText"
  /\ lastCall["e2"].op = "none"
  /\ CallEncipherText("e2", lastCall["e1"].ret)

Next ==
  \/ EncipherChar
  \/ EncipherCharWithPath
  \/ EncipherText
  \/ EncipherSame
  \/ EncipherBack

Spec == Init /\ [][Next]_vars

---------------------------------------------------------------------------
(* SpecDefault: the default machine (createDefault) under an unbounded     *)
(* run of keystrokes.  The rotor positions a keystroke leaves do not       *)
(* depend on the letter typed, so typing one letter over and over visits   *)
(* every position the machine can reach with every letter.                 *)

InitDefault ==
  LET c1 == EnigmaFactory_createDefault(<<>>)
  IN  /\ settings = DEFAULT_SETTINGS
      /\ rotors = c1.heap
      /\ objects = [m \in {"e1"} |-> c1.machine]
      /\ lastCall = [m \in {"e1"} |-> NoCall]

\* the first keystroke: any letter
KeyFirst ==
  /\ lastCall["e1"].op = "none"
  /\ \E letter \in Letters : CallEncipherChar("e1", letter)

\* a further keystroke: the same letter again
KeyAgain ==
  /\ lastCall["e1"].op = "encipherChar"
  /\ CallEncipherChar("e1", lastCall["e1"].arg)

NextDefault == KeyFirst \/ KeyAgain

SpecDefault == InitDefault /\ [][NextDefault]_vars

---------------------------------------------------------------------------
(* SpecStep: one keystroke on a machine of any rotor selection, started    *)
(* with the middle and the right rotor at any letter.                      *)

\* every rotor selection, repeated ids included (the factory accepts them)
AllRotorTriples == RotorIds \X RotorIds \X RotorIds

\* start letters of the left rotor
LeftStartLetters == {<<"A">>, <<"Z">>}

\* the keys pressed
StepKeys == {<<"A">>}

StepSettings ==
  [rotors : AllRotorTriples, reflector : {"B"},
   positions : LeftStartLetters \X Letters \X Letters,
   plugboardPairs : {<<>>}]

InitStep ==
  \E s \in StepSettings :
    LET c1 == EnigmaFactory_create(<<>>, s)
    IN  /\ settings = s
        /\ rotors = c1.heap
        /\ objects = [m \in {"e1"} |-> c1.machine]
        /\ lastCall = [m \in {"e1"} |-> NoCall]

Keystroke ==
  /\ lastCall["e1"].op = "none"
  /\ \E char \in StepKeys : CallEncipherChar("e1", char)

NextStep == Keystroke

SpecStep == InitStep /\ [][NextStep]_vars

---------------------------------------------------------------------------
(* Calls on a single Rotor, Reflector or Plugboard object.  A first call   *)
(* takes any input; a second call on the same object takes what the first  *)
(* call returned, and remembers the first call in `prev`.                  *)

\* no call made yet on any object
Untouched == \A o \in DOMAIN lastCall : lastCall[o].op = "none"

\* one call made on object o, and no second one
CalledOnce(o) == lastCall[o].op # "none" /\ lastCall[o].prev = <<>>

RecordCall(o, op, arg, ret) ==
  /\ lastCall' = [lastCall EXCEPT ![o] =
       [op |-> op, arg |-> arg, ret |-> ret, steps |-> <<>>, before |-> <<>>,
        prev |-> IF lastCall[o].op = "none" THEN <<>>
                 ELSE << [op  |-> lastCall[o].op, arg |-> lastCall[o].arg,
                          ret |-> lastCall[o].ret] >>]]
  /\ UNCHANGED <<settings, rotors, objects>>

---------------------------------------------------------------------------
(* SpecRotor: one rotor of the refactored engine and one of the JS engine, *)
(* of any id, at any position.                                             *)

InitRotor ==
  \E id \in RotorIds, letter \in Letters :
    /\ settings = [rotors |-> <<id>>, positions |-> <<letter>>]
    /\ rotors = << RotorFactory_create(id, letter),
                   Rotor_constructor(id, charCodeAt0(letter) - 65) >>
    /\ objects = <<>>
    /\ lastCall = [o \in {"rotor", "rotorJs"} |-> NoCall]

Forward ==
  /\ Untouched
  /\ \E x \in Letters :
       RecordCall("rotor", "forward", x, Rotor_forward(rotors[1], x))

Backward ==
  /\ Untouched
  /\ \E x \in Letters :
       RecordCall("rotor", "backward", x, Rotor_backward(rotors[1], x))

ForwardOfResult ==
  /\ CalledOnce("rotor")
  /\ RecordCall("rotor", "forward", lastCall["rotor"].ret,
                Rotor_forward(rotors[1], lastCall["rotor"].ret))

BackwardOfResult ==
  /\ CalledOnce("rotor")
  /\ RecordCall("rotor", "backward", lastCall["rotor"].ret,
                Rotor_backward(rotors[1], lastCall["rotor"].ret))

PassarParaFrente ==
  /\ Untouched
  /\ \E x \in Letters :
       RecordCall("rotorJs", "passarParaFrente", x,
                  Rotor_passarParaFrente(rotors[2], x))

PassarParaTras ==
  /\ Untouched
  /\ \E x \in Letters :
       RecordCall("rotorJs", "passarParaTras", x,
                  Rotor_passarParaTras(rotors[2], x))

PassarParaFrenteOfResult ==
  /\ CalledOnce("rotorJs")
  /\ RecordCall("rotorJs", "passarParaFrente", lastCall["rotorJs"].ret,
                Rotor_passarParaFrente(rotors[2], lastCall["rotorJs"].ret))

PassarParaTrasOfResult ==
  /\ CalledOnce("rotorJs")
  /\ RecordCall("rotorJs", "passarParaTras", lastCall["rotorJs"].ret,
                Rotor_passarParaTras(rotors[2], lastCall["rotorJs"].ret))

NextRotor ==
  \/ Forward
  \/ Backward
  \/ ForwardOfResult
  \/ BackwardOfResult
  \/ PassarParaFrente
  \/ PassarParaTras
  \/ PassarParaFrenteOfResult
  \/ PassarParaTrasOfResult

SpecRotor == InitRotor /\ [][NextRotor]_vars

---------------------------------------------------------------------------
(* SpecRotorState: one rotor, of the refactored engine or of the JS        *)
(* engine, created at a letter A-Z and then rotated and repositioned any   *)
(* number of times.                                                        *)

\* strings handed to setPosition / setPosicaoPorLetra: the empty string,
\* two letters, a digit, punctuation, a character whose upper case is two
\* characters, and single letters in upper and lower case
PositionStrings ==
  { <<>>, <<"A", "B">>, <<"1">>, <<".">>, <<SharpS>>,
    <<"A">>, <<"Z">>, <<"b">> }

InitRotorState ==
  \E id \in RotorIds, letter \in Letters, o \in {"rotor", "rotorJs"} :
    /\ settings = [rotors |-> <<id>>, positions |-> <<letter>>]
    /\ rotors = IF o = "rotor" THEN <<RotorFactory_create(id, letter)>>
                ELSE <<Rotor_constructor(id, charCodeAt0(letter) - 65)>>
    /\ objects = <<>>
    /\ lastCall = [x \in {o} |-> NoCall]

\* a call on the rotor has ended: r holds whether it threw and the rotor it
\* left; before is the position the rotor had
RotorCallEnded(o, op, arg, r, before) ==
  /\ rotors' = <<r.rotor>>
  /\ lastCall' = [lastCall EXCEPT ![o] =
                    [op |-> op, arg |-> arg,
                     ret |-> IF r.threw THEN Thrown ELSE Undefined,
                     steps |-> <<>>, before |-> <<before>>, prev |-> <<>>]]
  /\ UNCHANGED <<settings, objects>>

\* a call that cannot throw has left this rotor
Left(rotor) == [threw |-> FALSE, rotor |-> rotor]

Rotate ==
  /\ "rotor" \in DOMAIN lastCall
  /\ RotorCallEnded("rotor", "rotate", <<>>, Left(Rotor_rotate(rotors[1])),
                    rotors[1].position)

SetPosition ==
  /\ "rotor" \in DOMAIN lastCall
  /\ \E letter \in PositionStrings :
       RotorCallEnded("rotor", "setPosition", letter,
                      Rotor_setPosition(rotors[1], letter),
                      rotors[1].position)

Girar ==
  /\ "rotorJs" \in DOMAIN lastCall
  /\ RotorCallEnded("rotorJs", "girar", <<>>, Left(Rotor_girar(rotors[1])),
                    rotors[1].posicao)

SetPosicaoPorLetra ==
  /\ "rotorJs" \in DOMAIN lastCall
  /\ \E letra \in PositionStrings :
       RotorCallEnded("rotorJs", "setPosicaoPorLetra", letra,
                      Rotor_setPosicaoPorLetra(rotors[1], letra),
                      rotors[1].posicao)

NextRotorState == Rotate \/ SetPosition \/ Girar \/ SetPosicaoPorLetra

SpecRotorState == InitRotorState /\ [][NextRotorState]_vars

---------------------------------------------------------------------------
(* SpecReflector: one reflector of each engine, B or C.                    *)

InitReflector ==
  \E id \in ReflectorIds :
    /\ settings = [reflector |-> id]
    /\ rotors = <<>>
    /\ objects = [o \in {"reflector", "reflectorJs"} |->
                    IF o = "reflector" THEN ReflectorFactory_create(id)
                    ELSE Reflector_constructor(id)]
    /\ lastCall = [o \in {"reflector", "reflectorJs"} |-> NoCall]

Reflect ==
  /\ Untouched
  /\ \E x \in Letters :
       RecordCall("reflector", "reflect", x,
                  Reflector_reflect(objects["reflector"], x))

ReflectOfResult ==
  /\ CalledOnce("reflector")
  /\ RecordCall("reflector", "reflect", lastCall["reflector"].ret,
                Reflector_reflect(objects["reflector"],
                                  lastCall["reflector"].ret))

Refletir ==
  /\ Untouched
  /\ \E x \in Letters :
       RecordCall("reflectorJs", "refletir", x,
                  Reflector_refletir(objects["reflectorJs"], x))

RefletirOfResult ==
  /\ CalledOnce("reflectorJs")
  /\ RecordCall("reflectorJs", "refletir", lastCall["reflectorJs"].ret,
                Reflector_refletir(objects["reflectorJs"],
                                   lastCall["reflectorJs"].ret))

NextReflector == Reflect \/ ReflectOfResult \/ Refletir \/ RefletirOfResult

SpecReflector == InitReflector /\ [][NextReflector]_vars

---------------------------------------------------------------------------
(* SpecPlugboard: one plugboard of each engine, built from any list of at  *)
(* most MaxPairs pair strings.                                             *)

MaxPairs == 2

\* pair strings: two pairs sharing the letter B, a lower-case pair, strings
\* of length one and three, strings with a digit, a pair of one letter
PairStrings ==
  { <<"A", "B">>, <<"B", "C">>, <<"c", "d">>, <<"A">>, <<"A", "B", "C">>,
    <<"1", "A">>, <<"A", "1">>, <<"A", "A">> }

PlugboardPairLists == UNION {[1..n -> PairStrings] : n \in 0..MaxPairs}

InitPlugboard ==
  \E pairs \in PlugboardPairLists :
    /\ settings = [plugboardPairs |-> pairs]
    /\ rotors = <<>>
    /\ objects = [o \in {"plugboard", "plugboardJs"} |->
                    IF o = "plugboard" THEN Plugboard_new(pairs)
                    ELSE Plugboard_constructor(pairs)]
    /\ lastCall = [o \in {"plugboard", "plugboardJs"} |-> NoCall]

Swap ==
  /\ Untouched
  /\ \E x \in InputStrings :
       RecordCall("plugboard", "swap", x,
                  Plugboard_swap(objects["plugboard"], x))

SwapOfResult ==
  /\ CalledOnce("plugboard")
  /\ lastCall["plugboard"].op = "swap"
  /\ RecordCall("plugboard", "swap", lastCall["plugboard"].ret,
                Plugboard_swap(objects["plugboard"], lastCall["plugboard"].ret))

IsConnected ==
  /\ Untouched
  /\ \E x \in InputStrings :
       RecordCall("plugboard", "isConnected", x,
                  Plugboard_isConnected(objects["plugboard"], x))

Trocar ==
  /\ Untouched
  /\ \E x \in InputStrings :
       RecordCall("plugboardJs", "trocar", x,
                  Plugboard_trocar(objects["plugboardJs"], x))

TrocarOfResult ==
  /\ CalledOnce("plugboardJs")
  /\ RecordCall("plugboardJs", "trocar", lastCall["plugboardJs"].ret,
                Plugboard_trocar(objects["plugboardJs"],
                                 lastCall["plugboardJs"].ret))

NextPlugboard ==
  \/ Swap
  \/ SwapOfResult
  \/ IsConnected
  \/ Trocar
  \/ TrocarOfResult

SpecPlugboard == InitPlugboard /\ [][NextPlugboard]_vars

---------------------------------------------------------------------------
(* SpecEngines: a machine e1 of the refactored engine and a machine eJs of *)
(* the JS / legacy engine, built from the same settings; one of them is    *)
(* given one keystroke.  eJs is built the way the JS engine is used: the   *)
(* rotors ROTOR_x() at position 0, then setPosicoes with the start letters. *)

InitEngines ==
  \E s \in Settings :
    LET c1  == EnigmaFactory_create(<<>>, s)
        cJs == Enigma_constructor(Reflector_constructor(s.reflector),
                                  <<4, 5, 6>>,
                                  Plugboard_constructor(s.plugboardPairs))
    IN  /\ settings = s
        /\ rotors = Enigma_setPosicoes(
                      c1.heap \o [i \in 1..3 |-> Rotor_constructor(s.rotors[i], 0)],
                      cJs.machine, s.positions).heap
        /\ objects = [m \in {"e1", "eJs"} |->
                         IF m = "e1" THEN c1.machine ELSE cJs.machine]
        /\ lastCall = [m \in {"e1", "eJs"} |-> NoCall]

EncipherCharJs ==
  /\ Untouched
  /\ \E letra \in InputStrings :
       Returned("eJs", "encipherChar", letra,
                EnigmaJs_encipherChar(rotors, objects["eJs"], letra),
                PosicoesOf(rotors, objects["eJs"]))

EncipherCharWithPathLegacy ==
  /\ Untouched
  /\ \E letra \in InputStrings :
       ReturnedPath("eJs", "encipherCharWithPath", letra,
                    EnigmaLegacy_encipherCharWithPath(rotors, objects["eJs"],
                                                      letra),
                    PosicoesOf(rotors, objects["eJs"]))

NextEngines ==
  \/ Untouched /\ EncipherChar
  \/ Untouched /\ EncipherCharWithPath
  \/ EncipherCharJs
  \/ EncipherCharWithPathLegacy

SpecEngines == InitEngines /\ [][NextEngines]_vars

---------------------------------------------------------------------------
(* SpecText: two machines e1 and e2 created from the same settings.  e1    *)
(* is given one or two encipherText calls; e2 is then given what e1 was    *)
(* given, either as one text or character by character with encipherChar.  *)
(* `prev` holds, for each machine, everything it was given and everything  *)
(* it returned so far, concatenated, and the number of calls made.         *)

\* texts of letters in upper and lower case and a character that is none
ShortTexts == UNION {[1..n -> {"A", "q", "1"}] : n \in 0..MaxLen}

TextSettings ==
  {s \in Settings : /\ s.rotors \in {<<"I", "II", "III">>, <<"V", "IV", "III">>}
                    /\ s.reflector = "B"}

InitText ==
  \E s \in TextSettings :
    LET c1 == EnigmaFactory_create(<<>>, s)
        c2 == EnigmaFactory_create(c1.heap, s)
    IN  /\ settings = s
        /\ rotors = c2.heap
        /\ objects = [m \in {"e1", "e2"} |->
                         IF m = "e1" THEN c1.machine ELSE c2.machine]
        /\ lastCall = [m \in {"e1", "e2"} |-> NoCall]

\* what machine m was given and returned over all its calls so far
History(m) ==
  IF lastCall[m].prev = <<>> THEN [arg |-> <<>>, ret |-> <<>>, calls |-> 0]
  ELSE lastCall[m].prev[1]

\* one more call on machine m has returned
ReturnedAgain(m, op, arg, r) ==
  /\ rotors' = r.heap
  /\ lastCall' = [lastCall EXCEPT ![m] =
                    [op |-> op, arg |-> arg, ret |-> r.ret, steps |-> <<>>,
                     before |-> PositionsOf(rotors, objects[m]),
                     prev |-> << [arg   |-> History(m).arg \o arg,
                                  ret   |-> History(m).ret \o r.ret,
                                  calls |-> History(m).calls + 1] >>]]
  /\ UNCHANGED <<settings, objects>>

\* e1.encipherText(text), a first or a second time
TextAfterText ==
  /\ lastCall["e2"].op = "none"
  /\ History("e1").calls < 2
  /\ \E text \in ShortTexts :
       ReturnedAgain("e1", "encipherText", text,
                     Enigma_encipherText(rotors, objects["e1"], text))

\* e2.encipherText of everything e1 was given
WholeText ==
  /\ lastCall["e2"].op = "none"
  /\ History("e1").calls > 0
  /\ ReturnedAgain("e2", "encipherText", History("e1").arg,
                   Enigma_encipherText(rotors, objects["e2"],
                                       History("e1").arg))

\* the character of e1's input that e2 has not been given yet
NextChar == <<History("e1").arg[Len(History("e2").arg) + 1]>>

\* e2.encipherChar of the next character of what e1 was given
CharByChar ==
  /\ lastCall["e2"].op \in {"none", "encipherChar"}
  /\ History("e1").calls > 0
  /\ Len(History("e2").arg) < Len(History("e1").arg)
  /\ ReturnedAgain("e2", "encipherChar", NextChar,
                   Enigma_encipherChar(rotors, objects["e2"], NextChar))

NextText == TextAfterText \/ WholeText \/ CharByChar

SpecText == InitText /\ [][NextText]_vars

---------------------------------------------------------------------------
(* SpecKey: two machines e1 and e2 created from the same settings, with    *)
(* disjoint plugboard pairs.  e1 is given a letter; e2, standing where e1  *)
(* stood, is given the letter e1 returned.                                 *)

KeySettings ==
  [rotors : RotorTriples, reflector : ReflectorIds,
   positions : {<<"A">>, <<"Z">>} \X {<<"A">>, <<"E">>, <<"N">>, <<"V">>}
                 \X Letters,
   plugboardPairs : {<<>>, << <<"A", "Q">>, <<"b", "t">> >>}]

InitKey ==
  \E s \in KeySettings :
    LET c1 == EnigmaFactory_create(<<>>, s)
        c2 == EnigmaFactory_create(c1.heap, s)
    IN  /\ settings = s
        /\ rotors = c2.heap
        /\ objects = [m \in {"e1", "e2"} |->
                         IF m = "e1" THEN c1.machine ELSE c2.machine]
        /\ lastCall = [m \in {"e1", "e2"} |-> NoCall]

\* e1.encipherChar(x) for a letter x
KeyThere ==
  /\ Untouched
  /\ \E x \in Letters : CallEncipherChar("e1", x)

\* e2.encipherChar of the letter e1 returned
KeyBack ==
  /\ lastCall["e1"].op = "encipherChar"
  /\ lastCall["e2"].op = "none"
  /\ CallEncipherChar("e2", lastCall["e1"].ret)

NextKey == KeyThere \/ KeyBack

SpecKey == InitKey /\ [][NextKey]_vars

---------------------------------------------------------------------------
(* SpecVector: the default machine of the refactored engine and the same   *)
(* machine of the JS engine (ROTOR_I, ROTOR_II, ROTOR_III, REFLECTOR_B, no *)
(* plugboard pairs, positions AAA); one of them is given one text of at    *)
(* most MaxVectorLen characters.                                           *)

MaxVectorLen == 5

VectorTexts == UNION {[1..n -> {"A", "b", " "}] : n \in 0..MaxVectorLen}

InitVector ==
  LET c1  == EnigmaFactory_createDefault(<<>>)
      cJs == EnigmaJs_create(c1.heap, DEFAULT_SETTINGS)
  IN  /\ settings = DEFAULT_SETTINGS
      /\ rotors = cJs.heap
      /\ objects = [m \in {"e1", "eJs"} |->
                       IF m = "e1" THEN c1.machine ELSE cJs.machine]
      /\ lastCall = [m \in {"e1", "eJs"} |-> NoCall]

TextOnDefault ==
  /\ Untouched
  /\ \E text \in VectorTexts : CallEncipherText("e1", text)

TextOnDefaultJs ==
  /\ Untouched
  /\ \E texto \in VectorTexts :
       Returned("eJs", "encipherText", texto,
                EnigmaJs_encipherText(rotors, objects["eJs"], texto),
                PosicoesOf(rotors, objects["eJs"]))

NextVector == TextOnDefault \/ TextOnDefaultJs

SpecVector == InitVector /\ [][NextVector]_vars

---------------------------------------------------------------------------
(* SpecTyping: one machine, of the refactored or of the JS engine, with    *)
(* any middle and right rotor started at any letter, under an unbounded    *)
(* run of keystrokes.  The stepping reads the notches of the middle and    *)
(* the right rotor only, so one left rotor stands for all; it does not     *)
(* depend on the letter typed, so one key does.  `settings` keeps the      *)
(* rotor selection and not the start letters, so that runs from different  *)
(* starts share the states they have in common; `prev` tells a first       *)
(* keystroke from a later one.                                             *)

TypingSettings ==
  [rotors : {"I"} \X RotorIds \X RotorIds, reflector : {"B"},
   positions : {<<>>}, plugboardPairs : {<<>>}]

StartedAt(s, middle, right) ==
  [s EXCEPT !.positions = << <<"A">>, middle, right >>]

InitTyping ==
  \E s \in TypingSettings, middle \in Letters, right \in Letters :
    /\ settings = s
    /\ \/ /\ rotors = EnigmaFactory_create(<<>>, StartedAt(s, middle, right)).heap
          /\ objects = [m \in {"e1"} |->
               EnigmaFactory_create(<<>>, StartedAt(s, middle, right)).machine]
          /\ lastCall = [m \in {"e1"} |-> NoCall]
       \/ /\ rotors = EnigmaJs_create(<<>>, StartedAt(s, middle, right)).heap
          /\ objects = [m \in {"eJs"} |->
               EnigmaJs_create(<<>>, StartedAt(s, middle, right)).machine]
          /\ lastCall = [m \in {"eJs"} |-> NoCall]

\* a keystroke on machine m has returned
Typed(m, r, before) ==
  /\ rotors' = r.heap
  /\ lastCall' = [lastCall EXCEPT ![m] =
                    [op |-> "encipherChar", arg |-> <<"A">>, ret |-> r.ret,
                     steps |-> <<>>, before |-> before,
                     prev |-> IF lastCall[m].op = "none" THEN <<>>
                              ELSE <<"encipherChar">>]]
  /\ UNCHANGED <<settings, objects>>

TypeKey ==
  /\ "e1" \in DOMAIN objects
  /\ Typed("e1", Enigma_encipherChar(rotors, objects["e1"], <<"A">>),
           PositionsOf(rotors, objects["e1"]))

TypeKeyJs ==
  /\ "eJs" \in DOMAIN objects
  /\ Typed("eJs", EnigmaJs_encipherChar(rotors, objects["eJs"], <<"A">>),
           PosicoesOf(rotors, objects["eJs"]))

NextTyping == TypeKey \/ TypeKeyJs

SpecTyping == InitTyping /\ [][NextTyping]_vars

---------------------------------------------------------------------------
(* SpecConfig: a machine constructed from a list of at most MaxRotors      *)
(* rotors, with the constructor of the refactored engine or of the JS      *)
(* engine, and then repositioned with lists of at most MaxRotors           *)
(* positions.  A constructor that threw leaves no machine.                 *)

MaxRotors == 4

\* rotor lists handed to the constructor
RotorLists == UNION {[1..n -> {"I", "II"}] : n \in 0..MaxRotors}

\* position lists handed to setPositions / setPosicoes
PositionLists == UNION {[1..n -> {<<"B">>, <<"1">>}] : n \in 0..MaxRotors}

\* the outcome of a constructor call: the machine exists unless it threw
Constructed(o, op, ids, threw, machine) ==
  /\ objects = IF threw THEN <<>> ELSE [x \in {o} |-> machine]
  /\ lastCall = [x \in {o} |->
                   [op |-> op, arg |-> ids,
                    ret |-> IF threw THEN Thrown ELSE Undefined,
                    steps |-> <<>>, before |-> <<>>, prev |-> <<>>]]

InitConfig ==
  \E ids \in RotorLists :
    /\ settings = [rotors |-> ids, reflector |-> "B",
                   positions |-> [i \in 1..Len(ids) |-> <<"A">>],
                   plugboardPairs |-> <<>>]
    /\ \/ /\ rotors = [i \in 1..Len(ids) |-> RotorFactory_create(ids[i], <<"A">>)]
          /\ Constructed("e1", "new Enigma", ids, FALSE,
                         Enigma_new([i \in 1..Len(ids) |-> i],
                                    ReflectorFactory_create("B"),
                                    Plugboard_new(<<>>)))
       \/ /\ rotors = [i \in 1..Len(ids) |-> Rotor_constructor(ids[i], 0)]
          /\ Constructed("eJs", "new Enigma", ids,
                         Enigma_constructor(Reflector_constructor("B"),
                                            [i \in 1..Len(ids) |-> i],
                                            Plugboard_constructor(<<>>)).threw,
                         Enigma_constructor(Reflector_constructor("B"),
                                            [i \in 1..Len(ids) |-> i],
                                            Plugboard_constructor(<<>>)).machine)

\* a position setter called on machine o has ended
PositionsCallEnded(o, op, arg, r, before) ==
  /\ rotors' = r.heap
  /\ lastCall' = [lastCall EXCEPT ![o] =
                    [op |-> op, arg |-> arg,
                     ret |-> IF r.threw THEN Thrown ELSE Undefined,
                     steps |-> <<>>, before |-> before, prev |-> <<>>]]
  /\ UNCHANGED <<settings, objects>>

SetPositions ==
  /\ "e1" \in DOMAIN objects
  /\ \E positions \in PositionLists :
       PositionsCallEnded("e1", "setPositions", positions,
                          Enigma_setPositions(rotors, objects["e1"], positions),
                          [i \in 1..Len(rotors) |-> rotors[i].position])

SetPosicoes ==
  /\ "eJs" \in DOMAIN objects
  /\ \E posicoes \in PositionLists :
       PositionsCallEnded("eJs", "setPosicoes", posicoes,
                          Enigma_setPosicoes(rotors, objects["eJs"], posicoes),
                          [i \in 1..Len(rotors) |-> rotors[i].posicao])

NextConfig == SetPositions \/ SetPosicoes

SpecConfig == InitConfig /\ [][NextConfig]_vars

---------------------------------------------------------------------------
(* SpecPositions: machine e1 is created with a triple of start positions;  *)
(* machine e2 is created with the same rotors at AAA and then given the    *)
(* same triple through setPositions.                                       *)

\* start positions: letters in upper and lower case, and a digit
PositionLetters == {<<"A">>, <<"Z">>, <<"b">>, <<"q">>, <<"1">>}

PositionSettings ==
  [rotors : RotorTriples, reflector : {"B"},
   positions : PositionLetters \X PositionLetters \X PositionLetters,
   plugboardPairs : {<<>>}]

InitPositions ==
  \E s \in PositionSettings :
    LET c1 == EnigmaFactory_create(<<>>, s)
        c2 == EnigmaFactory_create(
                c1.heap, [s EXCEPT !.positions = DEFAULT_SETTINGS.positions])
    IN  /\ settings = s
        /\ rotors = c2.heap
        /\ objects = [m \in {"e1", "e2"} |->
                         IF m = "e1" THEN c1.machine ELSE c2.machine]
        /\ lastCall = [m \in {"e1", "e2"} |-> NoCall]

\* e2.setPositions(the positions e1 was created with)
SetSamePositions ==
  /\ lastCall["e2"].op = "none"
  /\ PositionsCallEnded("e2", "setPositions", settings.positions,
                        Enigma_setPositions(rotors, objects["e2"],
                                            settings.positions),
                        PositionsOf(rotors, objects["e2"]))

NextPositions == SetSamePositions

SpecPositions == InitPositions /\ [][NextPositions]_vars

---------------------------------------------------------------------------
(* SpecAgree: a machine of each engine, built from the same settings, and  *)
(* every keystroke given to all three: e1 of the refactored engine, eJs of *)
(* the JS engine, eLegacy of the legacy TS engine.                         *)

\* letter keystrokes given to the three machines
MaxKeys == 3

\* keystrokes: upper-case letters and characters that are no letters
AgreeChars == {<<"A">>, <<"S">>, <<"T">>, <<"1">>, <<".">>}

\* plugboard pair lists: none, disjoint pairs in both cases, a letter in two
\* pairs, a pair with a character that is no letter, and a pair whose first
\* character is the ligature
AgreePairLists ==
  { <<>>,
    << <<"A", "Q">>, <<"s", "t">> >>,
    << <<"A", "Q">>, <<"Q", "S">> >>,
    << <<"A", "1">>, <<SharpS, "T">> >>,
    << <<LigatureST, "A">> >> }

AgreeSettings ==
  UNION { [rotors : {t}, reflector : ReflectorIds,
           positions : StartLettersOf(t[1]) \X StartLettersOf(t[2])
                         \X StartLettersOf(t[3]),
           plugboardPairs : AgreePairLists] : t \in RotorTriples }

\* the three machines, given the refactored one, the JS one and the legacy one
ThreeEngines(c1, cJs, cLegacy) ==
  /\ rotors = cLegacy.heap
  /\ objects = [m \in {"e1", "eJs", "eLegacy"} |->
                  IF m = "e1" THEN c1.machine
                  ELSE IF m = "eJs" THEN cJs.machine ELSE cLegacy.machine]
  /\ lastCall = [m \in {"e1", "eJs", "eLegacy"} |-> NoCall]

WithLegacy(s, c1, cJs) == ThreeEngines(c1, cJs, EnigmaJs_create(cJs.heap, s))

WithJs(s, c1) == WithLegacy(s, c1, EnigmaJs_create(c1.heap, s))

InitAgree ==
  \E s \in AgreeSettings :
    /\ settings = s
    /\ WithJs(s, EnigmaFactory_create(<<>>, s))

\* letter keystrokes given so far: each moves the right rotor by one
LettersTyped ==
  normalizeIndex(rotors[objects["e1"].rotors[3]].position
                   - letterToIndex(settings.positions[3]))

\* what a call on machine m is recorded as
KeystrokeCall(m, char, ret, before) ==
  [op |-> "encipherChar", arg |-> char, ret |-> ret, steps |-> <<>>,
   before |-> before,
   prev |-> IF lastCall[m].op = "none" THEN <<>> ELSE <<"encipherChar">>]

\* the three calls have returned: r1 from e1.encipherChar, rJs from
\* eJs.encipherChar, rLegacy from eLegacy.encipherCharWithPath, whose
\* outputLetter the legacy encipherChar returns
AllReturned(char, r1, rJs, rLegacy) ==
  /\ rotors' = rLegacy.heap
  /\ lastCall' =
       [m \in {"e1", "eJs", "eLegacy"} |->
          IF m = "e1"
            THEN KeystrokeCall(m, char, r1.ret, PositionsOf(rotors, objects[m]))
          ELSE IF m = "eJs"
            THEN KeystrokeCall(m, char, rJs.ret, PosicoesOf(rotors, objects[m]))
          ELSE KeystrokeCall(m, char, rLegacy.path.outputLetter,
                             PosicoesOf(rotors, objects[m]))]
  /\ UNCHANGED <<settings, objects>>

ThenLegacy(char, r1, rJs) ==
  AllReturned(char, r1, rJs,
              EnigmaLegacy_encipherCharWithPath(rJs.heap, objects["eLegacy"],
                                                char))

ThenJs(char, r1) ==
  ThenLegacy(char, r1, EnigmaJs_encipherChar(r1.heap, objects["eJs"], char))

\* the same keystroke on the three machines
KeystrokeOnAll ==
  /\ LettersTyped < MaxKeys
  /\ \E char \in AgreeChars :
       ThenJs(char, Enigma_encipherChar(rotors, objects["e1"], char))

NextAgree == KeystrokeOnAll

SpecAgree == InitAgree /\ [][NextAgree]_vars

---------------------------------------------------------------------------
(* SpecTrace: two machines of the refactored engine (e1, e2) and two of    *)
(* the legacy engine (l1, l2), all built from the same settings.  The      *)
(* first of a pair is given a keystroke through encipherCharWithPath, the  *)
(* second is then given the same keystroke through encipherChar.           *)

TraceMachines(c1, c2, cL1, cL2) ==
  /\ rotors = cL2.heap
  /\ objects = [m \in {"e1", "e2", "l1", "l2"} |->
                  IF m = "e1" THEN c1.machine
                  ELSE IF m = "e2" THEN c2.machine
                  ELSE IF m = "l1" THEN cL1.machine ELSE cL2.machine]
  /\ lastCall = [m \in {"e1", "e2", "l1", "l2"} |-> NoCall]

TraceLegacyPair(s, c1, c2, cL1) ==
  TraceMachines(c1, c2, cL1, EnigmaJs_create(cL1.heap, s))

TraceSecond(s, c1, c2) ==
  TraceLegacyPair(s, c1, c2, EnigmaJs_create(c2.heap, s))

TraceFirst(s, c1) == TraceSecond(s, c1, EnigmaFactory_create(c1.heap, s))

InitTrace ==
  \E s \in Settings :
    /\ settings = s
    /\ TraceFirst(s, EnigmaFactory_create(<<>>, s))

\* e1.encipherCharWithPath(char)
PathOnFirst ==
  /\ Untouched
  /\ \E char \in InputStrings : CallEncipherCharWithPath("e1", char)

\* e2.encipherChar(the character e1 was given)
CharOnSecond ==
  /\ lastCall["e1"].op = "encipherCharWithPath"
  /\ lastCall["e2"].op = "none"
  /\ CallEncipherChar("e2", lastCall["e1"].arg)

\* l1.encipherCharWithPath(letra)
PathOnFirstLegacy ==
  /\ Untouched
  /\ \E letra \in InputStrings :
       ReturnedPath("l1", "encipherCharWithPath", letra,
                    EnigmaLegacy_encipherCharWithPath(rotors, objects["l1"],
                                                      letra),
                    PosicoesOf(rotors, objects["l1"]))

\* l2.encipherChar(the character l1 was given)
CharOnSecondLegacy ==
  /\ lastCall["l1"].op = "encipherCharWithPath"
  /\ lastCall["l2"].op = "none"
  /\ Returned("l2", "encipherChar", lastCall["l1"].arg,
              EnigmaLegacy_encipherChar(rotors, objects["l2"],
                                        lastCall["l1"].arg),
              PosicoesOf(rotors, objects["l2"]))

NextTrace ==
  \/ PathOnFirst
  \/ CharOnSecond
  \/ PathOnFirstLegacy
  \/ CharOnSecondLegacy

SpecTrace == InitTrace /\ [][NextTrace]_vars

---------------------------------------------------------------------------
(* SpecLamps: the user interface.  Either the hook useEnigma (processKey,  *)
(* on a machine of the refactored engine) or the component EnigmaMachine   *)
(* (handleKeyPress, on a machine of the legacy engine) is mounted; the     *)
(* window holds the clock and the timers setTimeout has started.  Timers   *)
(* of equal delay fire in the order they were started, each when the clock *)
(* has reached its due time.                                               *)

\* the value null
Null == <<"null">>

\* delay of the timer that clears the lamp and the pressed key, in ms
LampDelay == 150

\* the clock advances in steps of TickMs up to MaxTime
TickMs == 50

MaxTime == 400

\* key presses in one behaviour
MaxPresses == 3

\* the keys pressed
Keys == {<<"A">>, <<"q">>, <<"1">>}

LampSettings == {[DEFAULT_SETTINGS EXCEPT !.reflector = r] : r \in ReflectorIds}

\* the React state and the ref of the mounted hook or component, with the
\* machine it has built
Mounted(created, positions) ==
  [enigmaRef   |-> created.machine,
   positions   |-> positions,
   inputText   |-> <<>>,
   outputText  |-> <<>>,
   currentSignalPath |-> Null,
   litLamp     |-> Null,
   pressedKey  |-> Null]

MountedAs(ui, created, positions) ==
  /\ rotors = created.heap
  /\ objects = [o \in {ui, "window"} |->
                  IF o = ui THEN Mounted(created, positions)
                  ELSE [now |-> 0, timers |-> <<>>]]
  /\ lastCall = [o \in {ui} |-> NoCall]

InitLamps ==
  \E s \in LampSettings :
    /\ settings = s
    /\ \/ MountedAs("hook", EnigmaFactory_create(<<>>, s), s.positions)
       \/ MountedAs("component", EnigmaJs_create(<<>>, s), s.positions)

\* the handler of machine ui has run for upperKey: the state setters, the
\* timer started, and the effect that rebuilds the machine from the new
\* positions (`rebuilt`) once the state has changed
KeyHandled(ui, key, upperKey, path, lamp, newPositions, rebuilt) ==
  /\ rotors' = rebuilt.heap
  /\ objects' =
       [objects EXCEPT
          ![ui] = [enigmaRef   |-> rebuilt.machine,
                   positions   |-> newPositions,
                   inputText   |-> objects[ui].inputText \o upperKey,
                   outputText  |-> objects[ui].outputText \o lamp,
                   currentSignalPath |-> path,
                   litLamp     |-> lamp,
                   pressedKey  |-> upperKey],
          !["window"].timers =
             Append(@, [due   |-> objects["window"].now + LampDelay,
                        press |-> Len(objects[ui].inputText) + 1])]
  /\ lastCall' = [lastCall EXCEPT ![ui] =
                    [op |-> IF ui = "hook" THEN "processKey"
                            ELSE "handleKeyPress",
                     arg |-> key, ret |-> Undefined, steps |-> <<>>,
                     before |-> Len(objects["window"].timers),
                     prev |-> <<>>]]
  /\ UNCHANGED settings

\* processKey after encipherCharWithPath has returned r
hookRebuilt(key, upperKey, r, newPositions) ==
  KeyHandled("hook", key, upperKey, r.path, r.path.outputLetter, newPositions,
             EnigmaFactory_create(
               <<>>, [settings EXCEPT !.positions = newPositions]))

hookEnciphered(key, upperKey, r) ==
  hookRebuilt(key, upperKey, r,
              Enigma_getPositions(r.heap, objects["hook"].enigmaRef))

\* processKey(key) of the hook
ProcessKey ==
  /\ "hook" \in DOMAIN objects
  /\ Len(objects["hook"].inputText) < MaxPresses
  /\ \E key \in Keys :
       IF ~ALPHABET_includes(toUpperCase(key)) THEN UNCHANGED vars
       ELSE hookEnciphered(
              key, toUpperCase(key),
              Enigma_encipherCharWithPath(rotors, objects["hook"].enigmaRef,
                                          toUpperCase(key)))

\* handleKeyPress after encipherChar has returned r
componentRebuilt(key, upperKey, r, newPositions) ==
  KeyHandled("component", key, upperKey, Null, r.ret, newPositions,
             EnigmaJs_create(
               <<>>, [settings EXCEPT !.positions = newPositions]))

componentEnciphered(key, upperKey, r) ==
  componentRebuilt(key, upperKey, r,
                   Enigma_getPosicoes(r.heap, objects["component"].enigmaRef))

\* handleKeyPress(key) of the component; the click sound is left out
HandleKeyPress ==
  /\ "component" \in DOMAIN objects
  /\ Len(objects["component"].inputText) < MaxPresses
  /\ \E key \in Keys :
       IF ~ALPHABET_includes(toUpperCase(key)) THEN UNCHANGED vars
       ELSE componentEnciphered(
              key, toUpperCase(key),
              EnigmaLegacy_encipherChar(rotors,
                                        objects["component"].enigmaRef,
                                        toUpperCase(key)))

\* the hook or component that is mounted
MountedUi == CHOOSE o \in DOMAIN objects : o # "window"

\* the callback of the oldest timer runs: setLitLamp(null);
\* setPressedKey(null)
TimerFires ==
  /\ objects["window"].timers # <<>>
  /\ Head(objects["window"].timers).due <= objects["window"].now
  /\ objects' = [objects EXCEPT ![MountedUi].litLamp = Null,
                                ![MountedUi].pressedKey = Null,
                                !["window"].timers = Tail(@)]
  /\ UNCHANGED <<settings, rotors, lastCall>>

\* time passes while no timer is due
TimePasses ==
  /\ objects["window"].now + TickMs <= MaxTime
  /\ IF objects["window"].timers = <<>> THEN TRUE
     ELSE Head(objects["window"].timers).due > objects["window"].now
  /\ objects' = [objects EXCEPT !["window"].now = @ + TickMs]
  /\ UNCHANGED <<settings, rotors, lastCall>>

NextLamps ==
  \/ ProcessKey
  \/ HandleKeyPress
  \/ TimerFires
  \/ TimePasses

SpecLamps == InitLamps /\ [][NextLamps]_vars

---------------------------------------------------------------------------
(* Properties                                                              *)

UpperCaseChars == {ALPHABET[i] : i \in 1..26}

\* the text holds upper-case letters and characters that are no letters
UpperOrNonLetter(text) ==
  \A i \in 1..Len(text) : text[i] \in UpperCaseChars \cup NonLetterChars

\* the letters a pair string connects
PairLetters(pair) == {toUpperCase(<<pair[i]>>) : i \in 1..Len(pair)}

\* every pair names two different letters and no letter is in two pairs
PairwiseDisjointValid(pairs) ==
  /\ \A i \in 1..Len(pairs) :
       /\ Len(pairs[i]) = 2
       /\ \A l \in PairLetters(pairs[i]) : isValidLetter(l)
       /\ Cardinality(PairLetters(pairs[i])) = 2
  /\ \A i, j \in 1..Len(pairs) :
       i # j => PairLetters(pairs[i]) \cap PairLetters(pairs[j]) = {}

\* the character is a letter key: its upper-case form is a letter
IsLetterKey(char) == isValidLetter(toUpperCase(char))

\* the rotor in slot i of machine e1 stood at its notch before the last call
AtNotchBefore(i) ==
  indexToLetter(lastCall["e1"].before[i])
    = RotorFactory_CONFIGS[settings.rotors[i]].notch

\* the positions the settings give, as 0..25
StartPositions ==
  << letterToIndex(settings.positions[1]),
     letterToIndex(settings.positions[2]),
     letterToIndex(settings.positions[3]) >>

\* C1: self-reciprocity.  With a plugboard of pairwise-disjoint valid pairs,
\* when machine e1 has enciphered a text of upper-case letters and
\* non-letters and machine e2, created from the same settings, has
\* enciphered what e1 returned, e2 returns the text e1 was given.
C1_SelfReciprocity ==
  ( /\ PairwiseDisjointValid(settings.plugboardPairs)
    /\ lastCall["e1"].op = "encipherText"
    /\ UpperOrNonLetter(lastCall["e1"].arg)
    /\ lastCall["e2"].op = "encipherText"
    /\ lastCall["e2"].arg = lastCall["e1"].ret )
  => lastCall["e2"].ret = lastCall["e1"].arg

C1_Witness ==
  /\ settings.plugboardPairs = << <<"A", "Q">>, <<"B", "T">> >>
  /\ settings.rotors = <<"V", "IV", "III">>
  /\ settings.reflector = "C"
  /\ lastCall["e1"].op = "encipherText"
  /\ lastCall["e1"].arg = <<"A", "Q">>
  /\ lastCall["e1"].before = <<25, 9, 21>>
  /\ lastCall["e2"].op = "encipherText"
  /\ lastCall["e2"].arg = lastCall["e1"].ret
  /\ lastCall["e2"].arg # lastCall["e1"].arg
  /\ lastCall["e2"].ret = <<"A", "Q">>

\* C2: double step.  When the middle rotor stands at its notch before a
\* letter keystroke, that one encipherChar call changes the position of the
\* middle rotor and the position of the left rotor.
C2_DoubleStep ==
  ( /\ lastCall["e1"].op = "encipherChar"
    /\ IsLetterKey(lastCall["e1"].arg)
    /\ AtNotchBefore(2) )
  => /\ PositionsOf(rotors, objects["e1"])[1] # lastCall["e1"].before[1]
     /\ PositionsOf(rotors, objects["e1"])[2] # lastCall["e1"].before[2]

C2_Witness ==
  /\ settings.rotors = <<"I", "II", "III">>
  /\ lastCall["e1"].op = "encipherChar"
  /\ lastCall["e1"].before = <<0, 4, 0>>
  /\ PositionsOf(rotors, objects["e1"]) = <<1, 5, 1>>

\* C3: right-notch carry.  When the right rotor stands at its notch before a
\* letter keystroke and the middle rotor does not, that one encipherChar
\* call advances the middle rotor by one, the right rotor by one, and
\* leaves the left rotor where it was.
C3_RightNotchCarry ==
  ( /\ lastCall["e1"].op = "encipherChar"
    /\ IsLetterKey(lastCall["e1"].arg)
    /\ AtNotchBefore(3)
    /\ ~AtNotchBefore(2) )
  => PositionsOf(rotors, objects["e1"])
       = << lastCall["e1"].before[1],
            (lastCall["e1"].before[2] + 1) % 26,
            (lastCall["e1"].before[3] + 1) % 26 >>

C3_Witness ==
  /\ settings.rotors = <<"I", "II", "III">>
  /\ lastCall["e1"].op = "encipherChar"
  /\ lastCall["e1"].before = <<0, 0, 21>>
  /\ PositionsOf(rotors, objects["e1"]) = <<0, 1, 22>>

\* C4: non-letter passthrough.  encipherChar and encipherCharWithPath, given
\* a character that is no letter, return that character, record no step and
\* leave the three rotor positions as they were.
C4_NonLetterPassthrough ==
  ( /\ lastCall["e1"].op \in {"encipherChar", "encipherCharWithPath"}
    /\ lastCall["e1"].arg[1] \in NonLetterChars )
  => /\ lastCall["e1"].ret = lastCall["e1"].arg
     /\ lastCall["e1"].steps = <<>>
     /\ PositionsOf(rotors, objects["e1"]) = lastCall["e1"].before

C4_Witness ==
  /\ lastCall["e1"].op = "encipherCharWithPath"
  /\ lastCall["e1"].arg = <<"1">>
  /\ lastCall["e1"].ret = <<"1">>
  /\ AtNotchBefore(2)
  /\ AtNotchBefore(3)
  /\ PositionsOf(rotors, objects["e1"]) = lastCall["e1"].before

\* C5: encipherText preserves positions.  The text returned is as long as
\* the text given, every character of the input that is no letter stands
\* unchanged at the same index of the output, and the empty text gives the
\* empty text and moves no rotor.
C5_TextPositionPreserving ==
  \A m \in {"e1", "e2"} :
    lastCall[m].op = "encipherText" =>
      /\ Len(lastCall[m].ret) = Len(lastCall[m].arg)
      /\ \A i \in 1..Len(lastCall[m].arg) :
           lastCall[m].arg[i] \in NonLetterChars
             => lastCall[m].ret[i] = lastCall[m].arg[i]
      /\ lastCall[m].arg = <<>> =>
           /\ lastCall[m].ret = <<>>
           /\ PositionsOf(rotors, objects[m]) = lastCall[m].before

C5_Witness ==
  /\ lastCall["e1"].op = "encipherText"
  /\ lastCall["e1"].arg = <<" ", "A">>
  /\ Len(lastCall["e1"].ret) = 2
  /\ lastCall["e1"].ret[1] = " "
  /\ lastCall["e1"].ret[2] # "A"

\* C6: no self-mapping on the default machine.  At AAA and at every
\* position further keystrokes reach, encipherChar of a letter never
\* returns that letter.
C6_NoSelfMapping ==
  lastCall["e1"].op = "encipherChar" =>
    lastCall["e1"].ret # lastCall["e1"].arg

C6_Witness ==
  /\ lastCall["e1"].op = "encipherChar"
  /\ lastCall["e1"].arg = <<"Z">>
  /\ lastCall["e1"].before = <<1, 5, 0>>
  /\ lastCall["e1"].ret \in Letters \ {<<"Z">>}

\* C7: determinism.  Two machines created from the same settings and given
\* the same text return the same text and end at the same rotor positions,
\* and a call on the first machine moves no rotor of the second.
C7_Determinism ==
  /\ lastCall["e2"].op = "none" =>
       PositionsOf(rotors, objects["e2"]) = StartPositions
  /\ ( /\ lastCall["e1"].op = "encipherText"
       /\ lastCall["e2"].op = "encipherText"
       /\ lastCall["e2"].arg = lastCall["e1"].arg )
     => /\ lastCall["e2"].ret = lastCall["e1"].ret
        /\ PositionsOf(rotors, objects["e2"])
             = PositionsOf(rotors, objects["e1"])

C7_Witness ==
  /\ lastCall["e1"].op = "encipherText"
  /\ lastCall["e1"].arg = <<"A", "a">>
  /\ lastCall["e2"].op = "encipherText"
  /\ lastCall["e2"].arg = <<"A", "a">>
  /\ lastCall["e2"].ret = lastCall["e1"].ret
  /\ lastCall["e2"].ret # lastCall["e2"].arg
  /\ PositionsOf(rotors, objects["e1"]) # StartPositions
  /\ PositionsOf(rotors, objects["e2"]) = PositionsOf(rotors, objects["e1"])

\* C8: rotor round trip.  For each rotor I-V at each position and each
\* letter x, backward(forward(x)) = x and forward(backward(x)) = x; the same
\* holds of passarParaTras and passarParaFrente of the JS engine.
C8_RotorRoundTrip ==
  \A o \in {"rotor", "rotorJs"} :
    ( /\ lastCall[o].prev # <<>>
      /\ lastCall[o].op # lastCall[o].prev[1].op )
    => lastCall[o].ret = lastCall[o].prev[1].arg

C8_Witness ==
  /\ rotors[1] = [id |-> "V", position |-> 25]
  /\ lastCall["rotor"].op = "backward"
  /\ lastCall["rotor"].prev # <<>>
  /\ lastCall["rotor"].prev[1].op = "forward"
  /\ lastCall["rotor"].prev[1].arg = <<"Q">>
  /\ lastCall["rotor"].prev[1].ret # <<"Q">>
  /\ lastCall["rotor"].ret = <<"Q">>

\* C9: reflector involution.  For reflectors B and C and each letter x,
\* reflect(reflect(x)) = x and reflect(x) # x; the same holds of refletir of
\* the JS engine.
C9_ReflectorInvolution ==
  \A o \in {"reflector", "reflectorJs"} :
    /\ lastCall[o].op # "none" => lastCall[o].ret # lastCall[o].arg
    /\ lastCall[o].prev # <<>> => lastCall[o].ret = lastCall[o].prev[1].arg

C9_Witness ==
  /\ settings.reflector = "C"
  /\ lastCall["reflector"].op = "reflect"
  /\ lastCall["reflector"].prev # <<>>
  /\ lastCall["reflector"].prev[1].arg = <<"Z">>
  /\ lastCall["reflector"].arg = <<"L">>
  /\ lastCall["reflector"].ret = <<"Z">>

\* C10: plugboard involution.  For every list of pair strings, lists in
\* which a letter occurs in two pairs included, and every letter x,
\* swap(swap(x)) = x (and trocar(trocar(x)) = x in the JS engine).
C10_PlugboardInvolution ==
  \A o \in {"plugboard", "plugboardJs"} :
    ( /\ lastCall[o].op \in {"swap", "trocar"}
      /\ lastCall[o].prev # <<>>
      /\ lastCall[o].prev[1].arg \in Letters )
    => lastCall[o].ret = lastCall[o].prev[1].arg


\* the pair string names two letters (they may be the same letter)
WellFormedPair(pair) ==
  /\ Len(pair) = 2
  /\ \A l \in PairLetters(pair) : isValidLetter(l)

\* every pair string is well formed and no letter is in two pairs
DisjointPairs(pairs) ==
  /\ \A i \in 1..Len(pairs) : WellFormedPair(pairs[i])
  /\ \A i, j \in 1..Len(pairs) :
       i # j => PairLetters(pairs[i]) \cap PairLetters(pairs[j]) = {}

\* the pairs of the list the letter x occurs in
PairsWith(pairs, x) == {i \in 1..Len(pairs) : x \in PairLetters(pairs[i])}

\* the letter wired to x by the list: the other letter of x's pair, x itself
\* when x is in no pair
PartnerIn(pairs, x) ==
  IF PairsWith(pairs, x) = {} THEN x
  ELSE LET pair == pairs[CHOOSE i \in PairsWith(pairs, x) : TRUE]
       IN  IF toUpperCase(<<pair[1]>>) = x THEN toUpperCase(<<pair[2]>>)
           ELSE toUpperCase(<<pair[1]>>)

\* C11: plugboard mapping for disjoint pairs.  For a plugboard built from
\* pairwise-disjoint valid pairs (the empty list included), swap (trocar in
\* the JS engine) of a letter returns the other letter of its pair, or the
\* letter itself when it is in no pair, and isConnected is true exactly of
\* the letters in a pair of two different letters.
C11_DisjointPairMapping ==
  DisjointPairs(settings.plugboardPairs) =>
    /\ \A o \in {"plugboard", "plugboardJs"} :
         ( /\ lastCall[o].op \in {"swap", "trocar"}
           /\ lastCall[o].arg \in Letters )
         => lastCall[o].ret
              = PartnerIn(settings.plugboardPairs, lastCall[o].arg)
    /\ ( /\ lastCall["plugboard"].op = "isConnected"
         /\ lastCall["plugboard"].arg \in Letters )
       => lastCall["plugboard"].ret
            = (\E i \in PairsWith(settings.plugboardPairs,
                                  lastCall["plugboard"].arg) :
                 Cardinality(PairLetters(settings.plugboardPairs[i])) = 2)

C11_Witness ==
  /\ settings.plugboardPairs = << <<"A", "B">>, <<"c", "d">> >>
  /\ lastCall["plugboard"].op = "swap"
  /\ lastCall["plugboard"].prev # <<>>
  /\ lastCall["plugboard"].prev[1].arg = <<"C">>
  /\ lastCall["plugboard"].arg = <<"D">>
  /\ lastCall["plugboard"].ret = <<"C">>

\* the identity mapping of the 26 letters
IdentityMapping == [letter \in Letters |-> letter]

LowerCaseChars == {LowerCaseLetters[i] : i \in 1..26}

\* the string is one letter of the alphabet, in upper or lower case
IsSingleLetter(str) ==
  Len(str) = 1 /\ str[1] \in UpperCaseChars \cup LowerCaseChars

\* the index 0..25 of a single letter
LetterIndexOf(str) ==
  CHOOSE i \in 0..25 : ALPHABET[i + 1] = str[1] \/ LowerCaseLetters[i + 1] = str[1]

\* the last call on the rotor, if it was the position setter, did what the
\* validation rule asks: a single letter sets the position to its index,
\* anything else throws and leaves the position as it was
SetterValidated(o, op, position) ==
  ( /\ o \in DOMAIN lastCall
    /\ lastCall[o].op = op )
  => IF IsSingleLetter(lastCall[o].arg)
       THEN /\ lastCall[o].ret = Undefined
            /\ position = LetterIndexOf(lastCall[o].arg)
       ELSE /\ lastCall[o].ret = Thrown
            /\ position = lastCall[o].before[1]

\* C14: rotor position validation.  Rotor.setPosition (setPosicaoPorLetra in
\* the JS engine) called with a string that is not exactly one alphabet
\* letter throws and leaves the position unchanged; called with a single
\* letter it sets the position to the letter's index 0..25.
C14_RotorPositionValidation ==
  /\ "rotor" \in DOMAIN lastCall
       => SetterValidated("rotor", "setPosition", rotors[1].position)
  /\ "rotorJs" \in DOMAIN lastCall
       => SetterValidated("rotorJs", "setPosicaoPorLetra", rotors[1].posicao)

\* the part of C14 the refactored rotor is held to
C14_RefactoredRotorOnly ==
  "rotor" \in DOMAIN lastCall
    => SetterValidated("rotor", "setPosition", rotors[1].position)

\* C18: rotor offset range.  After any sequence of rotate() and successful
\* or failed position-setting calls on a rotor created at a letter A-Z, the
\* position is an integer in 0..25, and rotate() (girar) adds exactly 1
\* modulo 26.
C18_RotorOffsetRange ==
  /\ "rotor" \in DOMAIN lastCall =>
       /\ rotors[1].position \in 0..25
       /\ lastCall["rotor"].op = "rotate" =>
            rotors[1].position = (lastCall["rotor"].before[1] + 1) % 26
  /\ "rotorJs" \in DOMAIN lastCall =>
       /\ rotors[1].posicao \in 0..25
       /\ lastCall["rotorJs"].op = "girar" =>
            rotors[1].posicao = (lastCall["rotorJs"].before[1] + 1) % 26

\* the part of C18 the refactored rotor is held to
C18_RefactoredRotorOnly ==
  "rotor" \in DOMAIN lastCall =>
    /\ rotors[1].position \in 0..25
    /\ lastCall["rotor"].op = "rotate" =>
         rotors[1].position = (lastCall["rotor"].before[1] + 1) % 26


\* the last call on machine o, if it was the position setter with a list
\* of a length other than 3, threw
ArityChecked(o, op) ==
  ( /\ o \in DOMAIN objects
    /\ Len(objects[o].rotors) = 3
    /\ lastCall[o].op = op
    /\ Len(lastCall[o].arg) # 3 )
  => lastCall[o].ret = Thrown

\* C13: setPositions arity check.  Calling the machine's setPositions
\* (setPosicoes in the JS engine) with a list of any length other than 3
\* fails with an error and does not silently accept the call.
C13_SetPositionsArity ==
  /\ ArityChecked("e1", "setPositions")
  /\ ArityChecked("eJs", "setPosicoes")

\* the part of C13 the JS engine is held to
C13_JsEngineOnly == ArityChecked("eJs", "setPosicoes")

\* C15: rotor count check.  Constructing a machine with a rotor list whose
\* length is not exactly 3 fails at construction, so every existing machine
\* holds exactly 3 rotors at all times.
C15_RotorCount ==
  /\ \A o \in DOMAIN objects : Len(objects[o].rotors) = 3
  /\ \A o \in DOMAIN lastCall :
       ( /\ lastCall[o].op = "new Enigma"
         /\ Len(lastCall[o].arg) # 3 )
       => lastCall[o].ret = Thrown

\* the part of C15 the JS engine is held to
C15_JsEngineOnly ==
  /\ "eJs" \in DOMAIN objects => Len(objects["eJs"].rotors) = 3
  /\ ( /\ "eJs" \in DOMAIN lastCall
       /\ lastCall["eJs"].op = "new Enigma"
       /\ Len(lastCall["eJs"].arg) # 3 )
     => lastCall["eJs"].ret = Thrown


\* the positions of machine m's rotors now, left to right
PositionsNow(m) ==
  IF m = "eJs" THEN PosicoesOf(rotors, objects[m])
  ELSE PositionsOf(rotors, objects[m])

\* the rotor in slot i of machine m stood at its notch before the last call
AtNotchBeforeOn(m, i) ==
  indexToLetter(lastCall[m].before[i])
    = RotorFactory_CONFIGS[settings.rotors[i]].notch

\* the trace the last call on machine m returned has the eleven stages in
\* order, starts with the upper-cased key and ends with the letter returned
TraceInOrder(m) ==
  ( /\ lastCall[m].op = "encipherCharWithPath"
    /\ IsLetterKey(lastCall[m].arg) )
  => /\ Len(lastCall[m].steps) = 11
     /\ [i \in 1..11 |-> lastCall[m].steps[i].component]
          = << "input", "plugboard_in", "rotor_r", "rotor_m", "rotor_l",
               "reflector", "rotor_l_back", "rotor_m_back", "rotor_r_back",
               "plugboard_out", "output" >>
     /\ lastCall[m].steps[1].inputLetter = toUpperCase(lastCall[m].arg)
     /\ lastCall[m].steps[1].outputLetter = toUpperCase(lastCall[m].arg)
     /\ lastCall[m].steps[11].inputLetter = lastCall[m].ret
     /\ lastCall[m].steps[11].outputLetter = lastCall[m].ret

\* C16: trace stage order.  For every letter keystroke encipherCharWithPath
\* returns exactly 11 steps tagged, in this order, input, plugboard_in,
\* rotor_r, rotor_m, rotor_l, reflector, rotor_l_back, rotor_m_back,
\* rotor_r_back, plugboard_out, output; the first step's letter is the
\* upper-cased input letter and the last step's letter is the returned
\* outputLetter.  Holds for the refactored and for the legacy engine.
C16_TraceStageOrder == TraceInOrder("e1") /\ TraceInOrder("eJs")

C16_Witness ==
  /\ settings.plugboardPairs = << <<"A", "Q">>, <<"B", "T">> >>
  /\ lastCall["e1"].op = "encipherCharWithPath"
  /\ lastCall["e1"].arg = <<"q">>
  /\ Len(lastCall["e1"].steps) = 11
  /\ lastCall["e1"].steps[2].component = "plugboard_in"
  /\ lastCall["e1"].steps[2].inputLetter = <<"Q">>
  /\ lastCall["e1"].steps[2].outputLetter = <<"A">>
  /\ lastCall["e1"].steps[11].outputLetter = lastCall["e1"].ret

\* the legacy engine's trace is reached as well
C16_LegacyReached ==
  /\ lastCall["eJs"].op = "encipherCharWithPath"
  /\ lastCall["eJs"].arg = <<"q">>
  /\ Len(lastCall["eJs"].steps) = 11

\* the last keystroke on machine m, made with the middle and the right
\* rotor at their notches, moved the middle rotor by two and the others by
\* one
BothNotchesFire(m) ==
  ( /\ lastCall[m].op = "encipherChar"
    /\ IsLetterKey(lastCall[m].arg)
    /\ AtNotchBeforeOn(m, 2)
    /\ AtNotchBeforeOn(m, 3) )
  => PositionsNow(m)
       = << (lastCall[m].before[1] + 1) % 26,
            (lastCall[m].before[2] + 2) % 26,
            (lastCall[m].before[3] + 1) % 26 >>

\* C19: independent notch conditionals.  When both the middle and the right
\* rotor are at their notch letters before a letter keystroke, both
\* conditionals fire in that keystroke: the middle rotor advances by two,
\* the left rotor by one and the right rotor by one, the notch tests being
\* those of the positions before any rotor moved.
C19_IndependentNotchConditionals ==
  BothNotchesFire("e1") /\ BothNotchesFire("eJs")

C19_Witness ==
  /\ settings.rotors = <<"I", "II", "III">>
  /\ lastCall["e1"].op = "encipherChar"
  /\ lastCall["e1"].before = <<0, 4, 21>>
  /\ PositionsOf(rotors, objects["e1"]) = <<1, 6, 22>>

\* the same keystroke on the JS engine is reached as well
C19_JsReached ==
  /\ settings.rotors = <<"I", "II", "III">>
  /\ lastCall["eJs"].op = "encipherChar"
  /\ lastCall["eJs"].before = <<0, 4, 21>>
  /\ PosicoesOf(rotors, objects["eJs"]) = <<1, 6, 22>>

\* stage n of the reference routing of letter c through machine m, with the
\* rotors as they stand now: plugboard, right, middle, left rotor forward,
\* reflector, left, middle, right rotor backward, plugboard
ReferenceStage(m, n, c) ==
  CASE n = 1 -> Plugboard_swap(objects[m].plugboard, c)
    [] n = 2 -> Rotor_forward(rotors[objects[m].rotors[3]], c)
    [] n = 3 -> Rotor_forward(rotors[objects[m].rotors[2]], c)
    [] n = 4 -> Rotor_forward(rotors[objects[m].rotors[1]], c)
    [] n = 5 -> Reflector_reflect(objects[m].reflector, c)
    [] n = 6 -> Rotor_backward(rotors[objects[m].rotors[1]], c)
    [] n = 7 -> Rotor_backward(rotors[objects[m].rotors[2]], c)
    [] n = 8 -> Rotor_backward(rotors[objects[m].rotors[3]], c)
    [] n = 9 -> Plugboard_swap(objects[m].plugboard, c)

\* the same stage through the components of the JS engine
ReferenceStageJs(m, n, c) ==
  CASE n = 1 -> Plugboard_trocar(objects[m].plugboard, c)
    [] n = 2 -> Rotor_passarParaFrente(rotors[objects[m].rotors[3]], c)
    [] n = 3 -> Rotor_passarParaFrente(rotors[objects[m].rotors[2]], c)
    [] n = 4 -> Rotor_passarParaFrente(rotors[objects[m].rotors[1]], c)
    [] n = 5 -> Reflector_refletir(objects[m].reflector, c)
    [] n = 6 -> Rotor_passarParaTras(rotors[objects[m].rotors[1]], c)
    [] n = 7 -> Rotor_passarParaTras(rotors[objects[m].rotors[2]], c)
    [] n = 8 -> Rotor_passarParaTras(rotors[objects[m].rotors[3]], c)
    [] n = 9 -> Plugboard_trocar(objects[m].plugboard, c)

\* the letters the reference routing passes through from stage n on, cs
\* holding the letters so far
RECURSIVE ReferenceRouting(_, _, _)
ReferenceRouting(cs, m, n) ==
  IF n > 9 THEN cs
  ELSE ReferenceRouting(
         Append(cs, IF m = "eJs" THEN ReferenceStageJs(m, n, cs[Len(cs)])
                    ELSE ReferenceStage(m, n, cs[Len(cs)])),
         m, n + 1)

\* the letter the reference routing of the last key ends with
ReferenceLetter(m) ==
  ReferenceRouting(<<toUpperCase(lastCall[m].arg)>>, m, 1)[10]

\* the last call on machine m was a letter keystroke that moved the rotors
SteppedKeystroke(m) ==
  /\ PairwiseDisjointValid(settings.plugboardPairs)
  /\ lastCall[m].op = "encipherChar"
  /\ IsLetterKey(lastCall[m].arg)

\* C20: step first, then substitute.  With disjoint plugboard pairs, the
\* letter encipherChar(c) returns is the reference routing (plugboard, right,
\* middle, left rotor forward, reflector, left, middle, right rotor
\* backward, plugboard) of c with the rotor positions that hold after the
\* keystroke's stepping, which are the positions the rotors have when the
\* call has returned.
C20_StepThenSubstitute ==
  /\ SteppedKeystroke("e1") => lastCall["e1"].ret = ReferenceLetter("e1")
  /\ SteppedKeystroke("eJs") => lastCall["eJs"].ret = ReferenceLetter("eJs")

\* default rotors at AAA: the key A is routed with the right rotor at B and
\* lights B; routed with the rotors still at AAA it would give U
C20_Witness ==
  /\ settings.rotors = <<"I", "II", "III">>
  /\ settings.reflector = "B"
  /\ settings.plugboardPairs = <<>>
  /\ lastCall["e1"].op = "encipherChar"
  /\ lastCall["e1"].arg = <<"A">>
  /\ lastCall["e1"].before = <<0, 0, 0>>
  /\ PositionsOf(rotors, objects["e1"]) = <<0, 0, 1>>
  /\ lastCall["e1"].ret = <<"B">>

\* the same keystroke on the JS engine is reached as well
C20_JsReached ==
  /\ settings.rotors = <<"I", "II", "III">>
  /\ settings.reflector = "B"
  /\ settings.plugboardPairs = <<>>
  /\ lastCall["eJs"].op = "encipherChar"
  /\ lastCall["eJs"].arg = <<"A">>
  /\ lastCall["eJs"].before = <<0, 0, 0>>
  /\ lastCall["eJs"].ret = <<"B">>


\* C17: cumulative stepping.  Rotor state persists between calls: when e2
\* has been given, as one encipherText call or as encipherChar calls on each
\* character in order, all of what e1 was given over one or two
\* encipherText calls, it has returned in total what e1 returned in total,
\* and the two machines stand at the same rotor positions.
C17_CumulativeStepping ==
  ( /\ lastCall["e2"].op # "none"
    /\ History("e2").arg = History("e1").arg )
  => /\ History("e2").ret = History("e1").ret
     /\ PositionsOf(rotors, objects["e2"]) = PositionsOf(rotors, objects["e1"])

C17_Witness ==
  /\ settings.rotors = <<"I", "II", "III">>
  /\ settings.positions = << <<"A">>, <<"A">>, <<"V">> >>
  /\ History("e1").calls = 2
  /\ lastCall["e1"].arg = <<"q", "1">>
  /\ History("e1").arg = <<"A", "q", "q", "1">>
  /\ lastCall["e2"].op = "encipherText"
  /\ lastCall["e2"].arg = <<"A", "q", "q", "1">>
  /\ lastCall["e2"].ret = History("e1").ret
  /\ PositionsOf(rotors, objects["e2"]) = <<0, 1, 24>>

\* the character-by-character run is reached as well
C17_CharByCharReached ==
  /\ History("e1").calls = 1
  /\ lastCall["e1"].arg = <<"A", "q">>
  /\ lastCall["e2"].op = "encipherChar"
  /\ History("e2").calls = 2
  /\ History("e2").arg = <<"A", "q">>
  /\ History("e2").ret = lastCall["e1"].ret


\* the last letter keystroke on machine m moved the right rotor by one, the
\* left rotor only if the middle rotor stood at its notch, and the middle
\* rotor only if the middle or the right rotor stood at its notch
SteppingFrame(m) ==
  ( /\ lastCall[m].op \in {"encipherChar", "encipherCharWithPath"}
    /\ IsLetterKey(lastCall[m].arg) )
  => /\ PositionsNow(m)[3] = (lastCall[m].before[3] + 1) % 26
     /\ PositionsNow(m)[1] # lastCall[m].before[1] => AtNotchBeforeOn(m, 2)
     /\ PositionsNow(m)[2] # lastCall[m].before[2]
          => AtNotchBeforeOn(m, 2) \/ AtNotchBeforeOn(m, 3)

\* C21: stepping frame.  On every letter keystroke the right rotor advances
\* by exactly one position whatever the notches; the left rotor's position
\* changes only in a keystroke before which the middle rotor was at its
\* notch, and the middle rotor's only in a keystroke before which the middle
\* or the right rotor was at its notch.
C21_SteppingFrame == SteppingFrame("e1") /\ SteppingFrame("eJs")

\* right rotor IV at its notch J, middle rotor III at A: the middle rotor
\* moves, the left one does not
C21_Witness ==
  /\ settings.rotors = <<"II", "III", "IV">>
  /\ lastCall["eJs"].op = "encipherCharWithPath"
  /\ IsLetterKey(lastCall["eJs"].arg)
  /\ lastCall["eJs"].before = <<0, 0, 9>>
  /\ PosicoesOf(rotors, objects["eJs"]) = <<0, 1, 10>>

\* the same keystroke on the refactored machine is reached as well
C21_RefactoredReached ==
  /\ settings.rotors = <<"II", "III", "IV">>
  /\ lastCall["e1"].op = "encipherChar"
  /\ IsLetterKey(lastCall["e1"].arg)
  /\ lastCall["e1"].before = <<0, 0, 9>>
  /\ PositionsOf(rotors, objects["e1"]) = <<0, 1, 10>>


\* the valid pairs of the list that hold the letter x
ValidPairsWith(pairs, x) ==
  {i \in PairsWith(pairs, x) : WellFormedPair(pairs[i])}

\* some letter occurs in more than one valid pair of the list
LetterInTwoPairs(pairs) ==
  \E x \in Letters : Cardinality(ValidPairsWith(pairs, x)) > 1

\* x's partner in the last valid pair of the list that holds x, x itself
\* when no valid pair holds it
LastPartner(pairs, x) ==
  IF ValidPairsWith(pairs, x) = {} THEN x
  ELSE LET last == CHOOSE i \in ValidPairsWith(pairs, x) :
                     \A j \in ValidPairsWith(pairs, x) : j <= i
       IN  IF toUpperCase(<<pairs[last][1]>>) = x
             THEN toUpperCase(<<pairs[last][2]>>)
             ELSE toUpperCase(<<pairs[last][1]>>)

\* C22: last pair wins.  For a pair list in which a letter occurs in more
\* than one valid pair, the plugboard is built without an error and swap
\* (trocar) of every letter x, in upper or lower case, returns x's partner
\* in the last valid pair of the list that holds x, x itself if none does.
C22_LastPairWins ==
  LetterInTwoPairs(settings.plugboardPairs) =>
    \A o \in {"plugboard", "plugboardJs"} :
      ( /\ lastCall[o].op \in {"swap", "trocar"}
        /\ IsSingleLetter(lastCall[o].arg) )
      => lastCall[o].ret
           = LastPartner(settings.plugboardPairs, toUpperCase(lastCall[o].arg))

\* AB then BC: B is wired to C, and A still leads to B
C22_Witness ==
  /\ settings.plugboardPairs = << <<"A", "B">>, <<"B", "C">> >>
  /\ lastCall["plugboard"].op = "swap"
  /\ lastCall["plugboard"].arg = <<"b">>
  /\ lastCall["plugboard"].ret = <<"C">>

\* the same on the JS plugboard
C22_JsReached ==
  /\ settings.plugboardPairs = << <<"A", "B">>, <<"B", "C">> >>
  /\ lastCall["plugboardJs"].op = "trocar"
  /\ lastCall["plugboardJs"].arg = <<"A">>
  /\ lastCall["plugboardJs"].ret = <<"B">>


\* C23: the substitution of one keystroke is an involution without fixed
\* points.  With pairwise-disjoint plugboard pairs, encipherChar started
\* from a position triple P sends each letter x to a letter other than x,
\* and sends that letter, started from P again, back to x; a map of A-Z
\* that is its own inverse is a permutation.
C23_KeystrokeInvolution ==
  PairwiseDisjointValid(settings.plugboardPairs) =>
    /\ lastCall["e1"].op = "encipherChar"
         => /\ lastCall["e1"].ret \in Letters
            /\ lastCall["e1"].ret # lastCall["e1"].arg
    /\ lastCall["e2"].op = "encipherChar"
         => /\ lastCall["e2"].before = lastCall["e1"].before
            /\ lastCall["e2"].arg = lastCall["e1"].ret
            /\ lastCall["e2"].ret = lastCall["e1"].arg

C23_Witness ==
  /\ settings.plugboardPairs = << <<"A", "Q">>, <<"b", "t">> >>
  /\ settings.rotors = <<"I", "II", "III">>
  /\ settings.positions = << <<"Z">>, <<"E">>, <<"V">> >>
  /\ lastCall["e1"].op = "encipherChar"
  /\ lastCall["e1"].arg = <<"Q">>
  /\ lastCall["e2"].op = "encipherChar"
  /\ lastCall["e2"].ret = <<"Q">>
  /\ PositionsOf(rotors, objects["e2"]) = <<0, 6, 22>>


\* C24: historical test vector.  The default machine (rotors I, II, III,
\* reflector B, positions AAA, no plugboard pairs) enciphers AAAAA to BDZGO
\* and ends at positions A, A, F, in the refactored and in the JS engine.
C24_HistoricalVector ==
  \A m \in {"e1", "eJs"} :
    ( /\ lastCall[m].op = "encipherText"
      /\ lastCall[m].arg = <<"A", "A", "A", "A", "A">> )
    => /\ lastCall[m].ret = <<"B", "D", "Z", "G", "O">>
       /\ lastCall[m].before = <<0, 0, 0>>
       /\ PositionsNow(m) = <<0, 0, 5>>
       /\ m = "e1" => Enigma_getPositions(rotors, objects[m])
                        = << <<"A">>, <<"A">>, <<"F">> >>

C24_Witness ==
  /\ lastCall["eJs"].op = "encipherText"
  /\ lastCall["eJs"].arg = <<"A", "A", "A", "A", "A">>
  /\ lastCall["eJs"].ret = <<"B", "D", "Z", "G", "O">>
  /\ PosicoesOf(rotors, objects["eJs"]) = <<0, 0, 5>>

\* the refactored machine's run of the vector is reached as well
C24_RefactoredReached ==
  /\ lastCall["e1"].op = "encipherText"
  /\ lastCall["e1"].arg = <<"A", "A", "A", "A", "A">>
  /\ lastCall["e1"].ret = <<"B", "D", "Z", "G", "O">>


\* the rotor in slot i of machine m stands at its notch now
AtNotchNow(m, i) ==
  indexToLetter(PositionsNow(m)[i])
    = RotorFactory_CONFIGS[settings.rotors[i]].notch

\* C25: both-at-notch is never reached by typing.  In no state reached
\* after one or more letter keystrokes are the middle and the right rotor at
\* their notch letters at the same time; so the middle rotor advances by two
\* positions in one keystroke only in the first keystroke after the
\* positions were set.
C25_BothAtNotchUnreachable ==
  \A m \in DOMAIN lastCall :
    lastCall[m].op = "encipherChar"
      => /\ ~(AtNotchNow(m, 2) /\ AtNotchNow(m, 3))
         /\ lastCall[m].prev # <<>>
              => PositionsNow(m)[2] # (lastCall[m].before[2] + 2) % 26

\* rotors I, II, III started at A, E, V: the first keystroke moves the middle
\* rotor by two, to G; the second one moves the right rotor only
C25_Witness ==
  /\ settings.rotors = <<"I", "II", "III">>
  /\ "e1" \in DOMAIN lastCall
  /\ lastCall["e1"].prev # <<>>
  /\ lastCall["e1"].before = <<1, 6, 22>>
  /\ PositionsOf(rotors, objects["e1"]) = <<1, 6, 23>>

\* the first keystroke of that run, on the JS machine
C25_DoubleAdvanceReached ==
  /\ settings.rotors = <<"I", "II", "III">>
  /\ "eJs" \in DOMAIN lastCall
  /\ lastCall["eJs"].op = "encipherChar"
  /\ lastCall["eJs"].prev = <<>>
  /\ lastCall["eJs"].before = <<0, 4, 21>>
  /\ PosicoesOf(rotors, objects["eJs"]) = <<1, 6, 22>>


\* the last call on machine o, if it was the position setter and it threw,
\* left every rotor where it stood
FailedSetterChangedNothing(o, op) ==
  ( /\ o \in DOMAIN objects
    /\ Len(objects[o].rotors) = 3
    /\ lastCall[o].op = op
    /\ lastCall[o].ret = Thrown )
  => \A i \in 1..3 :
       (IF o = "eJs" THEN rotors[i].posicao ELSE rotors[i].position)
         = lastCall[o].before[i]

\* C26: setPositions is all-or-nothing.  Whenever a call of the machine's
\* setPositions (setPosicoes) fails, for an invalid letter in any slot or
\* for too few positions, none of the three rotor positions has changed.
C26_SetPositionsAllOrNothing ==
  /\ FailedSetterChangedNothing("e1", "setPositions")
  /\ FailedSetterChangedNothing("eJs", "setPosicoes")

\* the failed calls that are held to the claim: those that fail before the
\* first rotor is touched
C26_FailsAtFirstSlotOnly ==
  \A o \in DOMAIN objects :
    ( /\ Len(objects[o].rotors) = 3
      /\ lastCall[o].op \in {"setPositions", "setPosicoes"}
      /\ lastCall[o].ret = Thrown
      /\ \/ lastCall[o].arg = <<>>
         \/ (o = "eJs" /\ Len(lastCall[o].arg) # 3)
         \/ (lastCall[o].arg # <<>> /\ lastCall[o].arg[1] = <<"1">>) )
    => \A i \in 1..3 :
         (IF o = "eJs" THEN rotors[i].posicao ELSE rotors[i].position)
           = lastCall[o].before[i]


\* the positions triple of the settings in upper case
UpperPositions ==
  << toUpperCase(settings.positions[1]), toUpperCase(settings.positions[2]),
     toUpperCase(settings.positions[3]) >>

\* C27: start positions are applied the same way at construction and by
\* setPositions.  For every positions triple that setPositions accepts
\* (single letters, upper or lower case), getPositions of the machine
\* EnigmaFactory.create made with those positions equals getPositions after
\* setPositions(those positions) on a machine of the same rotors: the three
\* letters in upper case.
C27_PositionsAppliedTheSame ==
  ( /\ lastCall["e2"].op = "setPositions"
    /\ lastCall["e2"].ret = Undefined )
  => /\ Enigma_getPositions(rotors, objects["e2"]) = UpperPositions
     /\ Enigma_getPositions(rotors, objects["e1"])
          = Enigma_getPositions(rotors, objects["e2"])

\* the part of C27 that holds: triples of upper-case letters
C27_UpperCaseTriplesOnly ==
  ( /\ lastCall["e2"].op = "setPositions"
    /\ lastCall["e2"].ret = Undefined
    /\ settings.positions = UpperPositions )
  => /\ Enigma_getPositions(rotors, objects["e2"]) = UpperPositions
     /\ Enigma_getPositions(rotors, objects["e1"])
          = Enigma_getPositions(rotors, objects["e2"])

\* setPositions itself gives the letters in upper case for every triple it
\* accepts
C27_SetPositionsUpperCases ==
  ( /\ lastCall["e2"].op = "setPositions"
    /\ lastCall["e2"].ret = Undefined )
  => Enigma_getPositions(rotors, objects["e2"]) = UpperPositions


\* the three machines returned the same character and stand at the same
\* rotor positions
EnginesAgreeNow ==
  /\ lastCall["eJs"].ret = lastCall["e1"].ret
  /\ lastCall["eLegacy"].ret = lastCall["e1"].ret
  /\ PosicoesOf(rotors, objects["eJs"]) = PositionsOf(rotors, objects["e1"])
  /\ PosicoesOf(rotors, objects["eLegacy"]) = PositionsOf(rotors, objects["e1"])

\* C28: the engine variants agree.  For every rotor selection, reflector,
\* start letters A-Z, plugboard pair list and every input sequence of
\* upper-case letters and non-letters, the JS engine, the legacy TS engine and
\* the refactored TS engine produce the same output character and the same
\* rotor positions after every keystroke.
C28_EnginesAgree ==
  lastCall["e1"].op = "encipherChar" => EnginesAgreeNow

\* the pair of the settings whose first character is the ligature
LigaturePlugged ==
  \E i \in 1..Len(settings.plugboardPairs) :
    LigatureST \in {settings.plugboardPairs[i][j] :
                      j \in 1..Len(settings.plugboardPairs[i])}

\* the part of C28 that holds: pair lists without a character whose
\* upper-case form is several letters of the alphabet in a row
C28_AgreeWithoutLigature ==
  (lastCall["e1"].op = "encipherChar" /\ ~LigaturePlugged) => EnginesAgreeNow

\* the JS and the legacy engine agree with each other on every pair list
C28_JsAndLegacyAgree ==
  lastCall["e1"].op = "encipherChar"
  => /\ lastCall["eLegacy"].ret = lastCall["eJs"].ret
     /\ PosicoesOf(rotors, objects["eLegacy"])
          = PosicoesOf(rotors, objects["eJs"])


\* the 0..25 index of an upper-case letter, by its place in the alphabet
PlaceInAlphabet(letter) == CHOOSE i \in 0..25 : <<ALPHABET[i + 1]>> = letter

\* the steps of the path machine m returned are linked: each step starts
\* with the letter the step before ended with, and every index is the
\* alphabet index of its letter
StepsLinked(m) ==
  /\ \A i \in 2..Len(lastCall[m].steps) :
       lastCall[m].steps[i].inputLetter = lastCall[m].steps[i - 1].outputLetter
  /\ \A i \in 1..Len(lastCall[m].steps) :
       /\ lastCall[m].steps[i].inputLetter \in Letters
       /\ lastCall[m].steps[i].outputLetter \in Letters
       /\ lastCall[m].steps[i].inputIndex
            = PlaceInAlphabet(lastCall[m].steps[i].inputLetter)
       /\ lastCall[m].steps[i].outputIndex
            = PlaceInAlphabet(lastCall[m].steps[i].outputLetter)

\* positions of the rotors of machine m, whichever engine it belongs to
PositionsNowOf(m) ==
  IF m \in {"l1", "l2"} THEN PosicoesOf(rotors, objects[m])
  ELSE PositionsOf(rotors, objects[m])

\* machine `traced` was given a letter keystroke through
\* encipherCharWithPath and machine `plain`, if called, the same keystroke
\* through encipherChar
TraceContinuous(traced, plain) ==
  ( /\ lastCall[traced].op = "encipherCharWithPath"
    /\ IsLetterKey(lastCall[traced].arg) )
  => /\ Len(lastCall[traced].steps) = 11
     /\ StepsLinked(traced)
     /\ lastCall[traced].steps[11].outputLetter = lastCall[traced].ret
     /\ lastCall[plain].op = "encipherChar"
        => /\ lastCall[plain].ret = lastCall[traced].ret
           /\ PositionsNowOf(plain) = PositionsNowOf(traced)

\* C29: trace continuity.  In every SignalPath returned for a letter
\* keystroke each step's inputLetter equals the previous step's
\* outputLetter, every inputIndex and outputIndex is the 0..25 index of its
\* letter, the path's outputLetter is the letter encipherChar returns from
\* the same state before the keystroke, and recording the trace changes
\* neither the output nor the stepping.
C29_TraceContinuity ==
  TraceContinuous("e1", "e2") /\ TraceContinuous("l1", "l2")

\* a traced keystroke "q" with A and Q plugged, and the same
\* keystroke untraced on the second machine: the plugboard step ends with A
\* and the right rotor's step starts with it; both machines stepped
C29_Witness ==
  /\ settings.plugboardPairs = << <<"A", "Q">>, <<"B", "T">> >>
  /\ lastCall["e1"].op = "encipherCharWithPath"
  /\ lastCall["e1"].arg = <<"q">>
  /\ lastCall["e1"].steps[2].outputLetter = <<"A">>
  /\ lastCall["e1"].steps[2].inputIndex = 16
  /\ lastCall["e1"].steps[2].outputIndex = 0
  /\ lastCall["e1"].steps[3].inputLetter = <<"A">>
  /\ lastCall["e1"].steps[3].outputLetter # <<"A">>
  /\ lastCall["e2"].op = "encipherChar"
  /\ lastCall["e2"].ret = lastCall["e1"].ret
  /\ PositionsOf(rotors, objects["e2"]) # lastCall["e2"].before

\* the legacy engine's traced and untraced keystroke are reached as well
C29_LegacyReached ==
  /\ lastCall["l1"].op = "encipherCharWithPath"
  /\ lastCall["l1"].arg = <<"q">>
  /\ Len(lastCall["l1"].steps) = 11
  /\ lastCall["l2"].op = "encipherChar"
  /\ lastCall["l2"].ret = lastCall["l1"].ret
  /\ PosicoesOf(rotors, objects["l2"]) # lastCall["l2"].before


\* the timer started by the latest key press is still running: it has not
\* fired and its 150 ms are not over
OwnTimerPending(ui) ==
  /\ objects[ui].inputText # <<>>
  /\ \E i \in 1..Len(objects["window"].timers) :
       /\ objects["window"].timers[i].press = Len(objects[ui].inputText)
       /\ objects["window"].timers[i].due > objects["window"].now

\* the lamp and the key of the latest key press are still set
LatestPressShown(ui) ==
  /\ objects[ui].litLamp
       = <<objects[ui].outputText[Len(objects[ui].outputText)]>>
  /\ objects[ui].pressedKey
       = <<objects[ui].inputText[Len(objects[ui].inputText)]>>

\* C30: lamp timers do not interfere across key presses.  After
\* processKey(k) has set litLamp to the output letter and pressedKey to k,
\* both stay set until the 150 ms timer started by that same call fires; for
\* two key presses less than 150 ms apart the timer started by the earlier
\* press never clears the lamp or the pressed key of the later press.
C30_LampTimersDoNotInterfere ==
  OwnTimerPending(MountedUi) => LatestPressShown(MountedUi)

\* the same for the hook alone and for the component alone
C30_HookOnly ==
  "hook" \in DOMAIN objects => C30_LampTimersDoNotInterfere

C30_ComponentOnly ==
  "component" \in DOMAIN objects => C30_LampTimersDoNotInterfere

\* the part of C30 that holds: a key pressed while no timer of an earlier
\* press was pending stays shown until its own timer fires
C30_HeldWhenNoTimerWasPending ==
  (OwnTimerPending(MountedUi) /\ lastCall[MountedUi].before = 0)
  => LatestPressShown(MountedUi)

====
